---- MODULE Spec2Model ----
(***************************************************************************)
(* A model of the Chef context engine (src/src/core/context/Chef.ts) and   *)
(* of the @ingredient / @cookbook decorators (Cookbook.ts): the resolver   *)
(* (prepare / invokeRecipe), the tracer (trace) and cook with its budget   *)
(* planner.  Calls run as a stack of frames per caller, one step from one  *)
(* await to the next.                                                      *)
(***************************************************************************)
EXTENDS Integers, Sequences, FiniteSets, TLC

VARIABLES
  cookbook,       \* Chef.cookbook: the Map's entries <<token, ctor>> in insertion order
  pantry,         \* this.pantry: token -> [type, ...] or NoEntry
  valueCache,     \* this.valueCache: ctor -> value or NotCached
  instanceCache,  \* this.instanceCache: the set of ctors that have an instance
  stack,          \* per caller, the frames of the call in progress (top is last)
  ret,            \* per caller, what the frame just popped handed to its caller
  result,         \* per caller, the outcome of the last finished top-level call
  calls,          \* number of top-level calls started so far
  invocations,    \* ghost: ctor -> number of times instance.prepare was called
  completions,    \* ghost: ctor -> number of times instance.prepare returned a value
  supplierCalls,  \* ghost: pantry token -> number of times its supplier was called
  lastArgs,       \* ghost: ctor -> the arguments of the last instance.prepare call
  served,         \* ghost: ctor -> the first value a resolve of it returned
  lastCall        \* ghost: per caller, the top-level call it made last

vars == <<cookbook, pantry, valueCache, instanceCache, stack, ret, result,
          calls, invocations, completions, supplierCalls, lastArgs, served, lastCall>>

-----------------------------------------------------------------------------
(* Bounds                                                                  *)

MaxCalls == 2      \* top-level calls per behaviour
MaxDepth == 7      \* frames on one caller's stack
MaxFail == 1       \* how many times a failing prepare throws before it succeeds
MaxItems == 3      \* order items of a drawn plan
MaxUnits == 2      \* drawn texts have 0 or 4k-1 characters, k in 1..MaxUnits
MaxBudget == 3     \* drawn budgets are 0..MaxBudget (or none)
MaxPrio == 2       \* drawn priority scores are 1..MaxPrio

-----------------------------------------------------------------------------
(* JavaScript values.  A string is a sequence of one-character strings.    *)

Undef == [t |-> "undef"]
Null == [t |-> "null"]
Str(s) == [t |-> "str", s |-> s]
Num(n) == [t |-> "num", n |-> n]
Arr(e) == [t |-> "arr", e |-> e]
\* an object: its keys in insertion order and the value of each
Obj(k, v) == [t |-> "obj", k |-> k, v |-> v]

Digit(d) == <<"0", "1", "2", "3", "4", "5", "6", "7", "8", "9">>[d + 1]

RECURSIVE Digits(_)
Digits(n) == IF n < 10 THEN <<Digit(n)>> ELSE Digits(n \div 10) \o <<Digit(n % 10)>>

RECURSIVE Flatten(_, _)
\* parts joined with sep between them
Flatten(parts, sep) ==
  IF parts = <<>> THEN <<>>
  ELSE IF Len(parts) = 1 THEN parts[1]
  ELSE parts[1] \o sep \o Flatten(Tail(parts), sep)

Quote(s) == <<"\"">> \o s \o <<"\"">>

RECURSIVE Stringify(_)
\* JSON.stringify of a value that is not undefined
Stringify(v) ==
  CASE v.t = "str" -> Quote(v.s)
    [] v.t = "num" -> Digits(v.n)
    [] v.t = "null" -> <<"n", "u", "l", "l">>
    [] v.t = "undef" -> <<"n", "u", "l", "l">>   \* inside an array
    [] v.t = "arr" ->
         <<"[">> \o Flatten([i \in 1..Len(v.e) |-> Stringify(v.e[i])], <<",">>) \o <<"]">>
    [] v.t = "obj" ->
         LET kept == SelectSeq([i \in 1..Len(v.k) |-> i], LAMBDA i : v.v[i] # Undef)
         IN <<"{">> \o
            Flatten([j \in 1..Len(kept) |->
                       Quote(v.k[kept[j]]) \o <<":">> \o Stringify(v.v[kept[j]])],
                    <<",">>) \o
            <<"}">>

\* typeof x === "string" ? x : JSON.stringify(x); JSON.stringify(undefined) is undefined
Render(v) == IF v.t = "str" THEN v ELSE IF v = Undef THEN Undef ELSE Str(Stringify(v))

-----------------------------------------------------------------------------
(* Cookbook.ts: @ingredient specs.  A spec is the decorator's string       *)
(* argument, character by character.                                       *)

\* the spelling of the names the model uses; a token is kept as a TLA+ string
Spellings ==
  { <<"Root", <<"R", "o", "o", "t">>>>,
    <<"sessionId", <<"s", "e", "s", "s", "i", "o", "n", "I", "d">>>>,
    <<"storySeed", <<"s", "t", "o", "r", "y", "S", "e", "e", "d">>>>,
    <<"Characters", <<"C", "h", "a", "r", "a", "c", "t", "e", "r", "s">>>>,
    <<"ConversationHistory",
      <<"C", "o", "n", "v", "e", "r", "s", "a", "t", "i", "o", "n",
        "H", "i", "s", "t", "o", "r", "y">>>>,
    <<"Settings", <<"S", "e", "t", "t", "i", "n", "g", "s">>>>,
    <<"missing", <<"m", "i", "s", "s", "i", "n", "g">>>>,
    <<"blank", <<"b", "l", "a", "n", "k">>>>,
    <<"Flaky", <<"F", "l", "a", "k", "y">>>>,
    <<"Hollow", <<"H", "o", "l", "l", "o", "w">>>>,
    <<"Ping", <<"P", "i", "n", "g">>>>,
    <<"Pong", <<"P", "o", "n", "g">>>> }

\* the token a character sequence spells
Intern(cs) ==
  IF \E p \in Spellings : p[2] = cs
  THEN (CHOOSE p \in Spellings : p[2] = cs)[1]
  ELSE "?"

Spell(tok) == (CHOOSE p \in Spellings : p[1] = tok)[2]

\* String.prototype.indexOf for one character: 0-based, -1 when absent
IndexOf(cs, ch) ==
  IF \E i \in 1..Len(cs) : cs[i] = ch
  THEN (CHOOSE i \in 1..Len(cs) : cs[i] = ch /\ \A j \in 1..(i - 1) : cs[j] # ch) - 1
  ELSE -1

\* String.prototype.slice(from, to), 0-based, to exclusive
Slice(cs, from, to) == SubSeq(cs, from + 1, to)

RECURSIVE TrimStart(_)
TrimStart(cs) == IF cs # <<>> /\ Head(cs) = " " THEN TrimStart(Tail(cs)) ELSE cs

RECURSIVE TrimEnd(_)
TrimEnd(cs) ==
  IF cs # <<>> /\ cs[Len(cs)] = " " THEN TrimEnd(SubSeq(cs, 1, Len(cs) - 1)) ELSE cs

Trim(cs) == TrimEnd(TrimStart(cs))

NoPath == <<>>   \* jsonPath: undefined

\* parseIngredientSpec: split at the first ".", the tail becomes "$." + tail
parseIngredientSpec(spec) ==
  LET dotIndex == IndexOf(spec, ".")
  IN IF dotIndex = -1
     THEN [rootToken |-> Intern(spec), jsonPath |-> NoPath]
     ELSE [rootToken |-> Intern(Trim(Slice(spec, 0, dotIndex))),
           jsonPath |-> <<"$", ".">> \o Trim(Slice(spec, dotIndex + 1, Len(spec)))]

-----------------------------------------------------------------------------
(* jsonpath-plus, as Chef.invokeRecipe calls it: JSONPath({json, path,     *)
(* wrap: false}) for paths made of .field and [index] steps.               *)

IsDigit(ch) == ch \in {"0", "1", "2", "3", "4", "5", "6", "7", "8", "9"}

DigitValue(ch) == CHOOSE d \in 0..9 : Digit(d) = ch

RECURSIVE NumberOf(_)
NumberOf(cs) ==
  IF Len(cs) = 1 THEN DigitValue(cs[1])
  ELSE 10 * NumberOf(SubSeq(cs, 1, Len(cs) - 1)) + DigitValue(cs[Len(cs)])

\* the length of the longest prefix of cs holding none of the characters in stop
RECURSIVE PrefixLen(_, _)
PrefixLen(cs, stop) ==
  IF cs = <<>> \/ Head(cs) \in stop THEN 0 ELSE 1 + PrefixLen(Tail(cs), stop)

RECURSIVE PathSteps(_)
\* the steps of a path expression after its "$": <<"field", name>> or <<"index", n>>;
\* <<"bad">> ends the steps of an expression the model does not read
PathSteps(cs) ==
  IF cs = <<>> THEN <<>>
  ELSE IF Head(cs) = "."
  THEN LET n == PrefixLen(Tail(cs), {".", "["})
       IN IF n = 0 THEN << <<"bad">> >>
          ELSE << <<"field", SubSeq(cs, 2, n + 1)>> >> \o
               PathSteps(SubSeq(cs, n + 2, Len(cs)))
  ELSE IF Head(cs) = "["
  THEN LET n == PrefixLen(Tail(cs), {"]"})
           inner == SubSeq(cs, 2, n + 1)
       IN IF n = 0 \/ n + 2 > Len(cs) \/ \E i \in 1..n : ~IsDigit(inner[i])
          THEN << <<"bad">> >>
          ELSE << <<"index", NumberOf(inner)>> >> \o
               PathSteps(SubSeq(cs, n + 3, Len(cs)))
  ELSE << <<"bad">> >>

\* one step into a value: the member, or undefined when there is none
StepInto(v, step) ==
  CASE step[1] = "field" /\ v.t = "obj" ->
         IF \E i \in 1..Len(v.k) : v.k[i] = step[2]
         THEN v.v[CHOOSE i \in 1..Len(v.k) : v.k[i] = step[2]]
         ELSE Undef
    [] step[1] = "index" /\ v.t = "arr" ->
         IF step[2] + 1 \in 1..Len(v.e) THEN v.e[step[2] + 1] ELSE Undef
    [] OTHER -> Undef

RECURSIVE Walk(_, _)
Walk(v, steps) ==
  IF steps = <<>> THEN v
  ELSE IF v = Undef THEN Undef
  ELSE Walk(StepInto(v, Head(steps)), Tail(steps))

\* the single match of the path in json, or undefined when nothing matches
JSONPath(json, path) == Walk(json, PathSteps(Tail(path)))

-----------------------------------------------------------------------------
(* The kitchen of the model: the recipes of examples/ (their texts cut     *)
(* short), and the recipes Root, PickItem, PickGone, Orphan and Settings   *)
(* for sub-paths, a missing ingredient and a shadowed token.               *)

Callers == {1, 2}

Ctors ==
  {"SystemDirective", "ConversationHistory", "ConversationHistorySummary",
   "Characters", "CharactersSummary", "StoryOutline",
   "Root", "PickItem", "PickGone", "Orphan", "Settings", "Ping", "Pong",
   "Hollow", "HollowUser", "BlankUser"}

\* the @cookbook registrations, in import order: token = ctor.token ?? ctor.name
Registrations ==
  <<"SystemDirective", "ConversationHistory", "ConversationHistorySummary",
    "Characters", "CharactersSummary", "StoryOutline",
    "Root", "PickItem", "PickGone", "Orphan", "Settings">>

\* two more registrations, of recipes that have each other as ingredient
CyclicRegistrations == <<"Ping", "Pong">>

\* three more: a recipe whose prepare returns undefined, a recipe with that one as
\* ingredient, and a recipe with the undefined pantry value as ingredient
HollowRegistrations == <<"Hollow", "HollowUser", "BlankUser">>

PantryTokens == {"sessionId", "storySeed", "Settings", "blank"}

\* "Transcript" is a token some recipe class can name in `static token`
Tokens == Ctors \cup PantryTokens \cup {"missing", "Transcript"}

NoEntry == [type |-> "none"]
NoCtor == ""
NotCached == [t |-> "absent"]

KeyMessages == <<"m", "e", "s", "s", "a", "g", "e", "s">>
KeyCharacters == <<"c", "h", "a", "r", "a", "c", "t", "e", "r", "s">>
KeyName == <<"n", "a", "m", "e">>
KeyTitle == <<"t", "i", "t", "l", "e">>

\* what `new Chef({...})` is given: a value, or a function (an async supplier)
PantryInit ==
  [tok \in PantryTokens |->
     CASE tok = "sessionId" -> [fn |-> FALSE, value |-> Str(<<"1", "2", "3", "4">>)]
       [] tok = "storySeed" -> [fn |-> TRUE]
       [] tok = "Settings" -> [fn |-> FALSE, value |-> Str(<<"d", "a", "r", "k">>)]
       [] tok = "blank" -> [fn |-> FALSE, value |-> Undef]]

\* Chef.constructor: a function becomes a provider entry, anything else a value entry
Construct(pantryInit) ==
  [tok \in Tokens |->
     IF tok \in DOMAIN pantryInit
     THEN IF pantryInit[tok].fn
          THEN [type |-> "provider"]
          ELSE [type |-> "value", value |-> pantryInit[tok].value]
     ELSE NoEntry]

\* the results a pantry supplier can give
SupplierOutcomes(tok) ==
  {[ok |-> TRUE, v |-> Str(<<"s", "e", "e", "d">>)]}

\* the strings of the @ingredient decorators on prepare's parameters, in
\* parameter order
IngredientSpecs(ctor) ==
  CASE ctor = "ConversationHistory" -> <<Spell("sessionId")>>
    [] ctor = "ConversationHistorySummary" -> <<Spell("ConversationHistory")>>
    [] ctor = "Characters" -> <<Spell("storySeed")>>
    [] ctor = "CharactersSummary" -> <<Spell("Characters")>>
    [] ctor = "StoryOutline" -> <<Spell("storySeed"), Spell("Characters")>>
    [] ctor = "PickItem" -> <<Spell("Root") \o <<".", "a", ".", "b", "[", "1", "]">>>>
    [] ctor = "PickGone" -> <<Spell("Root") \o <<".", "a", ".", "c">>>>
    [] ctor = "Orphan" -> <<Spell("missing")>>
    [] ctor = "Settings" -> <<Spell("Root")>>
    [] ctor = "HollowUser" -> <<Spell("Hollow")>>
    [] ctor = "BlankUser" -> <<Spell("blank")>>
    [] ctor = "Ping" -> <<Spell("Pong")>>
    [] ctor = "Pong" -> <<Spell("Ping")>>
    [] OTHER -> <<>>

\* @ingredient: existing[parameterIndex] = parseIngredientSpec(spec)
ingredient(ctor) ==
  [i \in 1..Len(IngredientSpecs(ctor)) |-> parseIngredientSpec(IngredientSpecs(ctor)[i])]

\* the static hints of a recipe class; NoHint where the class declares none
NoHint == "none"

\* static priority: a number, a string or undefined
Priority(ctor) ==
  CASE ctor \in {"SystemDirective", "ConversationHistory", "ConversationHistorySummary"} ->
         Num(20)
    [] ctor = "Root" -> Str(<<"c", "r", "i", "t", "i", "c", "a", "l">>)
    [] ctor = "PickItem" -> Str(<<"L", "o", "w">>)
    [] OTHER -> Undef

SummaryRecipe(ctor) ==
  CASE ctor \in {"ConversationHistory", "ConversationHistorySummary"} ->
         "ConversationHistorySummary"
    [] ctor = "Characters" -> "CharactersSummary"
    [] OTHER -> NoHint

Compressible(ctor) == ctor = "ConversationHistory"

Ok(v) == [ok |-> TRUE, v |-> v]
Thrown == [ok |-> FALSE]

SessionLog(n) == Obj(<<KeyMessages>>, <<Arr(<<Str(<<"h", "i", Digit(n)>>)>>)>>)

Cast(n) ==
  Obj(<<KeyCharacters>>, <<Arr(<<Obj(<<KeyName>>, <<Str(<<"A", Digit(n)>>)>>)>>)>>)

\* the last k elements of a sequence: Array.prototype.slice(-k)
LastOf(e, k) == IF Len(e) <= k THEN e ELSE SubSeq(e, Len(e) - k + 1, Len(e))

\* instance.prepare(...args), the n-th call of it on this engine: the outcomes the
\* recipe can produce.  A recipe that reads a file or calls a language model can
\* give another result on another call, and Characters can fail MaxFail times.
Recipe(ctor, args, n) ==
  CASE ctor = "SystemDirective" -> {Ok(Str(<<"#", "#", " ", "O", "B", "J">>))}
    [] ctor = "ConversationHistory" -> {Ok(Null), Ok(SessionLog(n))}
    [] ctor = "ConversationHistorySummary" ->
         LET h == args[1]
             m == StepInto(h, <<"field", KeyMessages>>)
         IN IF m.t = "arr"
            THEN {Ok(Obj(<<KeyMessages>>, <<Arr(LastOf(m.e, 5))>>))}
            ELSE {Thrown}
    [] ctor = "Characters" ->
         (IF n <= MaxFail THEN {Thrown} ELSE {}) \cup {Ok(Cast(n))}
    [] ctor = "CharactersSummary" ->
         LET name == Walk(args[1], << <<"field", KeyCharacters>>, <<"index", 0>>,
                                      <<"field", KeyName>> >>)
         IN IF name.t = "str"
            THEN {Ok(Str(<<"N", "a", "m", "e", ":", " ">> \o name.s))}
            ELSE {Thrown}
    [] ctor = "StoryOutline" ->
         {Ok(Obj(<<KeyTitle>>, <<Str(<<"T", Digit(n)>>)>>))}
    [] ctor = "Root" ->
         {Ok(Obj(<< <<"a">> >>, <<Obj(<< <<"b">> >>, <<Arr(<<Num(10), Num(20)>>)>>)>>))}
    [] ctor = "Hollow" -> {Ok(Undef)}
    [] OTHER -> {Ok(IF args = <<>> THEN Null ELSE args[1])}

-----------------------------------------------------------------------------
(* The resolver: Chef.prepare and Chef.invokeRecipe                        *)

NoRet == [kind |-> "none"]
Value(v) == [kind |-> "value", v |-> v]
\* a rejection carries no value: awaiting it gives nothing to use
Throw(e) == [kind |-> "throw", err |-> e, v |-> Undef]

PrepareFrame(token) == [op |-> "prepare", token |-> token, pc |-> "start", ctor |-> NoCtor]
InvokeFrame(ctor) == [op |-> "invoke", ctor |-> ctor, i |-> 1, args |-> <<>>, pc |-> "loop"]

Top(c) == stack[c][Len(stack[c])]
Idle(c) == stack[c] = <<>>
Running(c, op, pc) == ~Idle(c) /\ Top(c).op = op /\ Top(c).pc = pc

\* a lookup that lets a registered recipe win over the pantry entry of its name
PantryHasUnlessRecipe(token) ==
  /\ pantry[token] # NoEntry
  /\ \A i \in 1..Len(cookbook) : cookbook[i][1] # token

\* this.pantry.has(token)
PantryHas(token) == pantry[token] # NoEntry

\* Chef.cookbook.get(token): the ctor the Map holds for token, or NoCtor
CookbookGet(token) ==
  IF \E i \in 1..Len(cookbook) : cookbook[i][1] = token
  THEN cookbook[CHOOSE i \in 1..Len(cookbook) : cookbook[i][1] = token][2]
  ELSE NoCtor

\* a cache that is never found filled
CacheMiss(ctor) == FALSE

\* a cache test that also counts a resolution in flight: the recipe's instance
\* exists from the start of its first invokeRecipe
CacheHasOrInFlight(ctor) == valueCache[ctor] # NotCached \/ ctor \in instanceCache

\* this.valueCache.has(ctor)
CacheHas(ctor) == valueCache[ctor] # NotCached

\* the top frame returns r to its caller: to the frame below, or, from the bottom
\* frame, to the top-level caller
Pop(c, r) ==
  /\ stack' = [stack EXCEPT ![c] = SubSeq(@, 1, Len(@) - 1)]
  /\ IF Len(stack[c]) = 1
     THEN ret' = [ret EXCEPT ![c] = NoRet] /\ result' = [result EXCEPT ![c] = r]
     ELSE ret' = [ret EXCEPT ![c] = r] /\ UNCHANGED result

\* the top frame moves to f and calls g
Call(c, f, g) ==
  /\ Len(stack[c]) < MaxDepth
  /\ stack' = [stack EXCEPT ![c] = SubSeq(@, 1, Len(@) - 1) \o <<f, g>>]
  /\ ret' = [ret EXCEPT ![c] = NoRet]
  /\ UNCHANGED result

\* the first value a resolve of the recipe behind token handed out
Serve(ctor, v) ==
  served' = [served EXCEPT ![ctor] = IF @ = NotCached THEN v ELSE @]

\* a prepare that gives undefined for a token nobody provides
UnresolvedAsUndefined(token) == Value(Undef)

\* what prepare does for a token with no pantry entry and no recipe: it throws
Unresolved(token) == Throw("UnresolvedToken")

\* chef.prepare(token), called by the application
StartResolve(c, token) ==
  /\ Idle(c)
  /\ calls < MaxCalls
  /\ calls' = calls + 1
  /\ stack' = [stack EXCEPT ![c] = <<PrepareFrame(token)>>]
  /\ result' = [result EXCEPT ![c] = NoRet]
  /\ lastCall' = [lastCall EXCEPT ![c] = [op |-> "resolve", token |-> token]]
  /\ UNCHANGED <<cookbook, pantry, valueCache, instanceCache, ret, invocations,
                 completions, supplierCalls, lastArgs, served>>

\* a prepare that refuses a recipe whose invokeRecipe is already on its call chain
PrepareStartCycleChecked(c) ==
  /\ Running(c, "prepare", "start")
  /\ LET token == Top(c).token
         ctor == CookbookGet(token)
     IN IF PantryHas(token)
        THEN IF pantry[token].type = "value"
             THEN /\ Pop(c, Value(pantry[token].value))
                  /\ UNCHANGED <<supplierCalls, instanceCache, served>>
             ELSE /\ \E o \in SupplierOutcomes(token) :
                       Pop(c, IF o.ok THEN Value(o.v) ELSE Throw("SupplierFailed"))
                  /\ supplierCalls' = [supplierCalls EXCEPT ![token] = @ + 1]
                  /\ UNCHANGED <<instanceCache, served>>
        ELSE IF ctor = NoCtor
        THEN /\ Pop(c, Unresolved(token))
             /\ UNCHANGED <<supplierCalls, instanceCache, served>>
        ELSE IF CacheHas(ctor)
        THEN /\ Pop(c, Value(valueCache[ctor]))
             /\ Serve(ctor, valueCache[ctor])
             /\ UNCHANGED <<supplierCalls, instanceCache>>
        ELSE IF \E i \in 1..Len(stack[c]) :
                  stack[c][i].op = "invoke" /\ stack[c][i].ctor = ctor
        THEN /\ Pop(c, Throw("CycleDetected"))
             /\ UNCHANGED <<supplierCalls, instanceCache, served>>
        ELSE /\ Call(c, [Top(c) EXCEPT !.pc = "await", !.ctor = ctor], InvokeFrame(ctor))
             /\ instanceCache' = instanceCache \cup {ctor}
             /\ UNCHANGED <<supplierCalls, served>>
  /\ UNCHANGED <<lastCall, cookbook, pantry, valueCache, calls, invocations, completions, lastArgs>>

\* a prepare whose cache is kept by token: the value cached under the recipe's own
\* name is not found under another token of the same recipe
PrepareStartCacheByToken(c) ==
  /\ Running(c, "prepare", "start")
  /\ LET token == Top(c).token
         ctor == CookbookGet(token)
     IN IF PantryHas(token)
        THEN IF pantry[token].type = "value"
             THEN /\ Pop(c, Value(pantry[token].value))
                  /\ UNCHANGED <<supplierCalls, instanceCache, served>>
             ELSE /\ \E o \in SupplierOutcomes(token) :
                       Pop(c, IF o.ok THEN Value(o.v) ELSE Throw("SupplierFailed"))
                  /\ supplierCalls' = [supplierCalls EXCEPT ![token] = @ + 1]
                  /\ UNCHANGED <<instanceCache, served>>
        ELSE IF ctor = NoCtor
        THEN /\ Pop(c, Unresolved(token))
             /\ UNCHANGED <<supplierCalls, instanceCache, served>>
        ELSE IF CacheHas(ctor) /\ token = ctor
        THEN /\ Pop(c, Value(valueCache[ctor]))
             /\ Serve(ctor, valueCache[ctor])
             /\ UNCHANGED <<supplierCalls, instanceCache>>
        ELSE \* await this.invokeRecipe(ctor), which starts with getInstance(ctor)
             /\ Call(c, [Top(c) EXCEPT !.pc = "await", !.ctor = ctor], InvokeFrame(ctor))
             /\ instanceCache' = instanceCache \cup {ctor}
             /\ UNCHANGED <<supplierCalls, served>>
  /\ UNCHANGED <<lastCall, cookbook, pantry, valueCache, calls, invocations, completions, lastArgs>>

\* a prepare that keeps what a supplier gave and calls it only the first time
PrepareStartMemoizing(c) ==
  /\ Running(c, "prepare", "start")
  /\ LET token == Top(c).token
         ctor == CookbookGet(token)
     IN IF PantryHas(token)
        THEN IF pantry[token].type = "value"
             THEN /\ Pop(c, Value(pantry[token].value))
                  /\ UNCHANGED <<supplierCalls, instanceCache, served>>
             ELSE /\ \E o \in SupplierOutcomes(token) :
                       Pop(c, IF o.ok THEN Value(o.v) ELSE Throw("SupplierFailed"))
                  /\ supplierCalls' = [supplierCalls EXCEPT ![token] = IF @ = 0 THEN 1 ELSE @]
                  /\ UNCHANGED <<instanceCache, served>>
        ELSE IF ctor = NoCtor
        THEN /\ Pop(c, Unresolved(token))
             /\ UNCHANGED <<supplierCalls, instanceCache, served>>
        ELSE IF CacheHas(ctor)
        THEN /\ Pop(c, Value(valueCache[ctor]))
             /\ Serve(ctor, valueCache[ctor])
             /\ UNCHANGED <<supplierCalls, instanceCache>>
        ELSE \* await this.invokeRecipe(ctor), which starts with getInstance(ctor)
             /\ Call(c, [Top(c) EXCEPT !.pc = "await", !.ctor = ctor], InvokeFrame(ctor))
             /\ instanceCache' = instanceCache \cup {ctor}
             /\ UNCHANGED <<supplierCalls, served>>
  /\ UNCHANGED <<lastCall, cookbook, pantry, valueCache, calls, invocations, completions, lastArgs>>

\* prepare, up to its first await: the pantry, then the cookbook, then the cache
PrepareStart(c) ==
  /\ Running(c, "prepare", "start")
  /\ LET token == Top(c).token
         ctor == CookbookGet(token)
     IN IF PantryHas(token)
        THEN IF pantry[token].type = "value"
             THEN /\ Pop(c, Value(pantry[token].value))
                  /\ UNCHANGED <<supplierCalls, instanceCache, served>>
             ELSE /\ \E o \in SupplierOutcomes(token) :
                       Pop(c, IF o.ok THEN Value(o.v) ELSE Throw("SupplierFailed"))
                  /\ supplierCalls' = [supplierCalls EXCEPT ![token] = @ + 1]
                  /\ UNCHANGED <<instanceCache, served>>
        ELSE IF ctor = NoCtor
        THEN /\ Pop(c, Unresolved(token))
             /\ UNCHANGED <<supplierCalls, instanceCache, served>>
        ELSE IF CacheHas(ctor)
        THEN /\ Pop(c, Value(valueCache[ctor]))
             /\ Serve(ctor, valueCache[ctor])
             /\ UNCHANGED <<supplierCalls, instanceCache>>
        ELSE \* await this.invokeRecipe(ctor), which starts with getInstance(ctor)
             /\ Call(c, [Top(c) EXCEPT !.pc = "await", !.ctor = ctor], InvokeFrame(ctor))
             /\ instanceCache' = instanceCache \cup {ctor}
             /\ UNCHANGED <<supplierCalls, served>>
  /\ UNCHANGED <<lastCall, cookbook, pantry, valueCache, calls, invocations, completions, lastArgs>>

\* a prepare that returns the cooked value without `this.valueCache.set`
PrepareResumeUncached(c) ==
  /\ Running(c, "prepare", "await")
  /\ ret[c] # NoRet
  /\ Pop(c, ret[c])
  /\ IF ret[c].kind = "throw" THEN UNCHANGED served ELSE Serve(Top(c).ctor, ret[c].v)
  /\ UNCHANGED <<valueCache, lastCall, cookbook, pantry, instanceCache, calls, invocations,
                 completions, supplierCalls, lastArgs>>

\* a prepare that caches undefined for a recipe whose invocation failed
PrepareResumeCachingFailure(c) ==
  /\ Running(c, "prepare", "await")
  /\ ret[c] # NoRet
  /\ valueCache' = [valueCache EXCEPT ![Top(c).ctor] = ret[c].v]
  /\ IF ret[c].kind = "throw" THEN UNCHANGED served ELSE Serve(Top(c).ctor, ret[c].v)
  /\ Pop(c, ret[c])
  /\ UNCHANGED <<lastCall, cookbook, pantry, instanceCache, calls, invocations, completions,
                 supplierCalls, lastArgs>>

\* prepare after `await this.invokeRecipe(ctor)`: cache the value and return it
PrepareResume(c) ==
  /\ Running(c, "prepare", "await")
  /\ ret[c] # NoRet
  /\ IF ret[c].kind = "throw"
     THEN Pop(c, ret[c]) /\ UNCHANGED <<valueCache, served>>
     ELSE /\ valueCache' = [valueCache EXCEPT ![Top(c).ctor] = ret[c].v]
          /\ Serve(Top(c).ctor, ret[c].v)
          /\ Pop(c, ret[c])
  /\ UNCHANGED <<lastCall, cookbook, pantry, instanceCache, calls, invocations, completions,
                 supplierCalls, lastArgs>>

\* the descriptor's sub-path applied to the resolved root value
Extract(desc, rootVal) ==
  IF desc.jsonPath # NoPath THEN JSONPath(rootVal, desc.jsonPath) ELSE rootVal

\* a check for null in place of undefined
IsNull(finalVal) == finalVal = Null

\* finalVal === undefined
IsUndefined(finalVal) == finalVal = Undef

\* an invokeRecipe that starts the resolution of all its ingredients at once
InvokeLoopAllAtOnce(c) ==
  /\ Running(c, "invoke", "loop")
  /\ LET f == Top(c)
         descs == ingredient(f.ctor)
         rest == Len(descs) - f.i + 1
     IN IF f.i <= Len(descs)
        THEN /\ Len(stack[c]) + rest <= MaxDepth
             /\ stack' = [stack EXCEPT ![c] =
                            SubSeq(@, 1, Len(@) - 1) \o <<[f EXCEPT !.pc = "await"]>> \o
                            [j \in 1..rest |-> PrepareFrame(descs[Len(descs) - j + 1].rootToken)]]
             /\ ret' = [ret EXCEPT ![c] = NoRet]
             /\ UNCHANGED <<result, invocations, completions, lastArgs>>
        ELSE /\ \E o \in Recipe(f.ctor, f.args, invocations[f.ctor] + 1) :
                  /\ Pop(c, IF o.ok THEN Value(o.v) ELSE Throw("RecipeFailed"))
                  /\ completions' = [completions EXCEPT ![f.ctor] = IF o.ok THEN @ + 1 ELSE @]
             /\ invocations' = [invocations EXCEPT ![f.ctor] = @ + 1]
             /\ lastArgs' = [lastArgs EXCEPT ![f.ctor] = f.args]
  /\ UNCHANGED <<lastCall, cookbook, pantry, valueCache, instanceCache, calls, supplierCalls, served>>

\* invokeRecipe at the head of its loop: resolve the next ingredient, or, with all
\* of them resolved, call instance.prepare(...resolvedArgs)
InvokeLoop(c) ==
  /\ Running(c, "invoke", "loop")
  /\ LET f == Top(c)
         descs == ingredient(f.ctor)
     IN IF f.i <= Len(descs)
        THEN /\ Call(c, [f EXCEPT !.pc = "await"], PrepareFrame(descs[f.i].rootToken))
             /\ UNCHANGED <<invocations, completions, lastArgs>>
        ELSE /\ \E o \in Recipe(f.ctor, f.args, invocations[f.ctor] + 1) :
                  /\ Pop(c, IF o.ok THEN Value(o.v) ELSE Throw("RecipeFailed"))
                  /\ completions' = [completions EXCEPT ![f.ctor] = IF o.ok THEN @ + 1 ELSE @]
             /\ invocations' = [invocations EXCEPT ![f.ctor] = @ + 1]
             /\ lastArgs' = [lastArgs EXCEPT ![f.ctor] = f.args]
  /\ UNCHANGED <<lastCall, cookbook, pantry, valueCache, instanceCache, calls, supplierCalls, served>>

\* an invokeRecipe that collects the arguments last-resolved first
InvokeResumeReversed(c) ==
  /\ Running(c, "invoke", "await")
  /\ ret[c] # NoRet
  /\ LET f == Top(c)
         desc == ingredient(f.ctor)[f.i]
     IN IF ret[c].kind = "throw"
        THEN Pop(c, ret[c])
        ELSE LET finalVal == Extract(desc, ret[c].v)
             IN IF IsUndefined(finalVal)
                THEN Pop(c, Throw("ContractViolation"))
                ELSE /\ stack' = [stack EXCEPT ![c][Len(stack[c])] =
                                    [f EXCEPT !.pc = "loop", !.i = f.i + 1,
                                              !.args = <<finalVal>> \o f.args]]
                     /\ ret' = [ret EXCEPT ![c] = NoRet]
                     /\ UNCHANGED result
  /\ UNCHANGED <<lastCall, cookbook, pantry, valueCache, instanceCache, calls, invocations,
                 completions, supplierCalls, lastArgs, served>>

\* an invokeRecipe that checks for undefined only what a sub-path gave
InvokeResumeSubPathChecked(c) ==
  /\ Running(c, "invoke", "await")
  /\ ret[c] # NoRet
  /\ LET f == Top(c)
         desc == ingredient(f.ctor)[f.i]
     IN IF ret[c].kind = "throw"
        THEN Pop(c, ret[c])
        ELSE LET finalVal == Extract(desc, ret[c].v)
             IN IF desc.jsonPath # NoPath /\ IsUndefined(finalVal)
                THEN Pop(c, Throw("ContractViolation"))
                ELSE /\ stack' = [stack EXCEPT ![c][Len(stack[c])] =
                                    [f EXCEPT !.pc = "loop", !.i = f.i + 1,
                                              !.args = Append(f.args, finalVal)]]
                     /\ ret' = [ret EXCEPT ![c] = NoRet]
                     /\ UNCHANGED result
  /\ UNCHANGED <<lastCall, cookbook, pantry, valueCache, instanceCache, calls, invocations,
                 completions, supplierCalls, lastArgs, served>>

\* invokeRecipe after `await this.prepare(desc.rootToken)`: drill into the sub-path,
\* throw on undefined, else keep the argument
InvokeResume(c) ==
  /\ Running(c, "invoke", "await")
  /\ ret[c] # NoRet
  /\ LET f == Top(c)
         desc == ingredient(f.ctor)[f.i]
     IN IF ret[c].kind = "throw"
        THEN Pop(c, ret[c])
        ELSE LET finalVal == Extract(desc, ret[c].v)
             IN IF IsUndefined(finalVal)
                THEN Pop(c, Throw("ContractViolation"))
                ELSE /\ stack' = [stack EXCEPT ![c][Len(stack[c])] =
                                    [f EXCEPT !.pc = "loop", !.i = f.i + 1,
                                              !.args = Append(f.args, finalVal)]]
                     /\ ret' = [ret EXCEPT ![c] = NoRet]
                     /\ UNCHANGED result
  /\ UNCHANGED <<lastCall, cookbook, pantry, valueCache, instanceCache, calls, invocations,
                 completions, supplierCalls, lastArgs, served>>

-----------------------------------------------------------------------------
(* The tracer: Chef.trace                                                  *)

AtIngredient == <<"@", "i", "n", "g", "r", "e", "d", "i", "e", "n", "t", "(", "\"">>

\* the deps entry of one descriptor: the root token and the decorator as written
DepOf(desc) ==
  [token |-> desc.rootToken,
   via |-> AtIngredient \o Spell(desc.rootToken) \o
           (IF desc.jsonPath # NoPath
            THEN <<".">> \o Slice(desc.jsonPath, 2, Len(desc.jsonPath))
            ELSE <<>>) \o
           <<"\"", ")">>]

\* a visited set that is never consulted
SeenNever(seen, token) == FALSE

SeenHas(seen, token) == \E i \in 1..Len(seen) : seen[i].token = token

RECURSIVE Visit(_, _, _)
RECURSIVE VisitAll(_, _, _, _)

\* a visit that looks in the cookbook before it looks in the pantry
VisitRecipeFirst(token, seen, fuel) ==
  IF fuel = 0 THEN [status |-> "overflow", seen |-> seen]
  ELSE IF SeenHas(seen, token) THEN [status |-> "ok", seen |-> seen]
  ELSE LET ctor == CookbookGet(token)
       IN IF ctor = NoCtor
          THEN IF PantryHas(token)
               THEN [status |-> "ok",
                     seen |-> Append(seen, [token |-> token, providerName |-> "pantry",
                                            deps |-> <<>>])]
               ELSE [status |-> "throw", seen |-> seen]
          ELSE LET descs == ingredient(ctor)
                   after == VisitAll(descs, 1, seen, fuel - 1)
               IN IF after.status # "ok" THEN after
                  ELSE [status |-> "ok",
                        seen |-> Append(after.seen,
                                        [token |-> token, providerName |-> ctor,
                                         deps |-> [i \in 1..Len(descs) |-> DepOf(descs[i])]])]

\* a visit that records the token before it visits the token's ingredients
VisitRecordFirst(token, seen, fuel) ==
  IF fuel = 0 THEN [status |-> "overflow", seen |-> seen]
  ELSE IF SeenHas(seen, token) THEN [status |-> "ok", seen |-> seen]
  ELSE IF PantryHas(token)
  THEN [status |-> "ok",
        seen |-> Append(seen, [token |-> token, providerName |-> "pantry", deps |-> <<>>])]
  ELSE LET ctor == CookbookGet(token)
       IN IF ctor = NoCtor THEN [status |-> "throw", seen |-> seen]
          ELSE LET descs == ingredient(ctor)
                   entry == [token |-> token, providerName |-> ctor,
                             deps |-> [i \in 1..Len(descs) |-> DepOf(descs[i])]]
               IN VisitAll(descs, 1, Append(seen, entry), fuel - 1)

\* visit(token) with `seen` as it stands: the entries afterwards, in insertion
\* order, or the failure.  fuel bounds the depth of the recursion.
Visit(token, seen, fuel) ==
  IF fuel = 0 THEN [status |-> "overflow", seen |-> seen]
  ELSE IF SeenHas(seen, token) THEN [status |-> "ok", seen |-> seen]
  ELSE IF PantryHas(token)
  THEN [status |-> "ok",
        seen |-> Append(seen, [token |-> token, providerName |-> "pantry", deps |-> <<>>])]
  ELSE LET ctor == CookbookGet(token)
       IN IF ctor = NoCtor THEN [status |-> "throw", seen |-> seen]
          ELSE LET descs == ingredient(ctor)
                   after == VisitAll(descs, 1, seen, fuel - 1)
               IN IF after.status # "ok" THEN after
                  ELSE [status |-> "ok",
                        seen |-> Append(after.seen,
                                        [token |-> token, providerName |-> ctor,
                                         deps |-> [i \in 1..Len(descs) |-> DepOf(descs[i])]])]

\* the loop over paramDescs from position i on: visit each root token in turn
VisitAll(descs, i, seen, fuel) ==
  IF i > Len(descs) THEN [status |-> "ok", seen |-> seen]
  ELSE LET one == Visit(descs[i].rootToken, seen, fuel)
       IN IF one.status # "ok" THEN one ELSE VisitAll(descs, i + 1, one.seen, fuel)

\* trace(rootToken): Array.from(seen.values()), or the failure
Trace(rootToken) == Visit(rootToken, <<>>, MaxDepth)

\* what a trace call settles with: the entries, the error of visit for a token
\* nobody provides, or the RangeError of a recursion that exhausts the call stack
Traced(traced) ==
  CASE traced.status = "ok" -> Value([t |-> "entries", e |-> traced.seen])
    [] traced.status = "throw" -> Throw("TraceNotFound")
    [] OTHER -> Throw("RangeError")

\* a trace that gets the recipe's instance to read its metadata
TraceCallInstantiating(c, rootToken) ==
  /\ Idle(c)
  /\ calls < MaxCalls
  /\ calls' = calls + 1
  /\ result' = [result EXCEPT ![c] = Traced(Trace(rootToken))]
  /\ lastCall' = [lastCall EXCEPT ![c] = [op |-> "trace", token |-> rootToken]]
  /\ instanceCache' = IF CookbookGet(rootToken) # NoCtor /\ ~PantryHas(rootToken)
                      THEN instanceCache \cup {CookbookGet(rootToken)}
                      ELSE instanceCache
  /\ UNCHANGED <<cookbook, pantry, valueCache, stack, ret, invocations,
                 completions, supplierCalls, lastArgs, served>>

\* chef.trace(rootToken), called by the application: it reads the pantry's keys,
\* the cookbook and the decorators' metadata, and awaits nothing but itself
TraceCall(c, rootToken) ==
  /\ Idle(c)
  /\ calls < MaxCalls
  /\ calls' = calls + 1
  /\ result' = [result EXCEPT ![c] = Traced(Trace(rootToken))]
  /\ lastCall' = [lastCall EXCEPT ![c] = [op |-> "trace", token |-> rootToken]]
  /\ UNCHANGED <<cookbook, pantry, valueCache, instanceCache, stack, ret, invocations,
                 completions, supplierCalls, lastArgs, served>>

-----------------------------------------------------------------------------
(* cook, first pass: normalize the order and materialize each item         *)

NoBudget == -1   \* budget: undefined
NoCost == -1     \* compressedCost: undefined
CharsPerToken == 4

\* the fallback tokenizer: Math.ceil(text.length / 4)
DefaultCount(text) == (Len(text.s) + CharsPerToken - 1) \div CharsPerToken

\* countTokensFn(text).  "default" is the fallback; "atLeastOne" is a caller's
\* tokenizer for which no text, the empty one included, costs less than one token.
Count(kind, text) ==
  IF kind = "default" \/ DefaultCount(text) >= 1 THEN DefaultCount(text) ELSE 1

Upper == <<"A", "B", "C", "D", "E", "F", "G", "H", "I", "J", "K", "L", "M",
           "N", "O", "P", "Q", "R", "S", "T", "U", "V", "W", "X", "Y", "Z">>
Lower == <<"a", "b", "c", "d", "e", "f", "g", "h", "i", "j", "k", "l", "m",
           "n", "o", "p", "q", "r", "s", "t", "u", "v", "w", "x", "y", "z">>

ToLowerCase(cs) ==
  [i \in 1..Len(cs) |->
     IF \E j \in 1..26 : Upper[j] = cs[i]
     THEN Lower[CHOOSE j \in 1..26 : Upper[j] = cs[i]]
     ELSE cs[i]]

\* the result of a function that returns a function where a number is expected
NotANumber == -2

\* the names in lower case that every object literal answers to: map[name] is
\* Object for "constructor" and Object.prototype for "__proto__"
InheritedNames ==
  {<<"c", "o", "n", "s", "t", "r", "u", "c", "t", "o", "r">>,
   <<"_", "_", "p", "r", "o", "t", "o", "_", "_">>}

\* defaultRankPriority: a number as it is; a string by map[lowered] where that is
\* not undefined, which holds for the table's entries and for the names the map
\* inherits; else 50
defaultRankPriority(info) ==
  IF info.priorityTag.t = "num" THEN info.priorityTag.n
  ELSE IF info.priorityTag.t = "str"
  THEN LET lowered == ToLowerCase(info.priorityTag.s)
       IN CASE lowered \in InheritedNames -> NotANumber
            [] lowered = <<"c", "r", "i", "t", "i", "c", "a", "l">> -> 100
            [] lowered = <<"m", "u", "s", "t">> -> 90
            [] lowered = <<"h", "i", "g", "h">> -> 75
            [] lowered = <<"n", "o", "r", "m", "a", "l">> -> 50
            [] lowered = <<"m", "e", "d", "i", "u", "m">> -> 50
            [] lowered = <<"l", "o", "w">> -> 25
            [] lowered = <<"o", "p", "t", "i", "o", "n", "a", "l">> -> 10
            [] OTHER -> 50
  ELSE 50

\* rankPriorityFn(info).  "byIndex" is a caller's ranker: later items rank higher.
Rank(kind, info) ==
  IF kind = "default" THEN defaultRankPriority(info) ELSE info.index

Bare(token) == [bare |-> TRUE, token |-> token]
Detailed(token, detail) == [bare |-> FALSE, token |-> token, detail |-> detail]

\* a normalization for which an empty order list is an order: of nothing
NormalizeEmptyAsGiven(order) ==
  [i \in 1..Len(order) |->
     [token |-> order[i].token,
      detail |-> IF order[i].bare \/ order[i].detail = NoHint THEN "full"
                 ELSE order[i].detail,
      index |-> i - 1]]

\* orderListNormalized: the caller's order, or the whole cookbook, with detail "full"
Normalize(order) ==
  IF Len(order) > 0
  THEN [i \in 1..Len(order) |->
          IF order[i].bare
          THEN [token |-> order[i].token, detail |-> "full", index |-> i - 1]
          ELSE [token |-> order[i].token,
                detail |-> IF order[i].detail = NoHint THEN "full" ELSE order[i].detail,
                index |-> i - 1]]
  ELSE [i \in 1..Len(cookbook) |->
          [token |-> cookbook[i][1], detail |-> "full", index |-> i - 1]]

\* static detailProfiles = { ... }: the labels the recipe class declares
DeclaredProfiles(ctor) == IF ctor = "Root" THEN {"summary"} ELSE {}

\* members that an object literal inherits from Object.prototype
ObjectPrototype == {"constructor", "toString"}

\* profiles[detail] on the recipe's detailProfiles object, where it has one: a
\* declared profile, else a member the object inherits, else undefined
DetailProfile(ctor, detail) ==
  IF DeclaredProfiles(ctor) = {} THEN NoHint
  ELSE IF detail = "summary" /\ detail \in DeclaredProfiles(ctor) THEN "first"
  ELSE IF detail \in ObjectPrototype THEN detail
  ELSE NoHint

\* profileFn(value, {chef}), called without a receiver.  Root's "summary" profile
\* serves value.a.b[0]; Object.prototype.toString gives the tag of its receiver,
\* undefined; Object gives back the object it is handed (Root's value is one).
ApplyProfile(profile, value) ==
  CASE profile = "first" ->
         Walk(value, << <<"field", <<"a">> >>, <<"field", <<"b">> >>, <<"index", 0>> >>)
    [] profile = "toString" ->
         Str(<<"[", "o", "b", "j", "e", "c", "t", " ",
               "U", "n", "d", "e", "f", "i", "n", "e", "d", "]">>)
    [] OTHER -> value

CookFrame(opts) ==
  [op |-> "cook", pc |-> "item",
   budget |-> opts.budget, explain |-> opts.explain,
   countTokens |-> opts.countTokens, rankPriority |-> opts.rankPriority,
   order |-> Normalize(opts.order),
   k |-> 1, cur |-> <<>>, preparedItems |-> <<>>,
   plan |-> <<>>, plannedTotal |-> 0, candidates |-> <<>>, ci |-> 1, evaluated |-> <<>>]

\* the item of order position k, once its baseline and its fallback are known
PreparedItem(f, base, compressedRendered, compressedCost, compressionNote) ==
  LET o == f.order[f.k]
      traced == Trace(o.token)
  IN [token |-> o.token,
      detailRequested |-> o.detail,
      baselineRendered |-> base.rendered,
      baselineCost |-> base.cost,
      compressedRendered |-> compressedRendered,
      compressedCost |-> compressedCost,
      compressionNote |-> compressionNote,
      trace |-> IF f.explain THEN traced.seen ELSE <<>>,
      recipeName |-> base.recipeName,
      priorityTag |-> base.priorityTag,
      priorityScore |-> Rank(f.rankPriority,
                             [token |-> o.token, recipeName |-> base.recipeName,
                              priorityTag |-> base.priorityTag, index |-> o.index]),
      index |-> o.index]

\* the end of one round of the loop: `await this.trace(token)` under explain, which
\* can reject, then preparedItems.push(item)
Push(c, item) ==
  LET f == Top(c)
  IN IF f.explain /\ Trace(item.token).status # "ok"
     THEN Pop(c, Throw("TraceFailed"))
     ELSE /\ stack' = [stack EXCEPT ![c][Len(stack[c])] =
                         [f EXCEPT !.preparedItems = Append(@, item), !.k = @ + 1,
                                   !.pc = "item", !.cur = <<>>]]
          /\ ret' = [ret EXCEPT ![c] = NoRet]
          /\ UNCHANGED result

\* the recipe class cook reads an item's metadata from
ItemCtor(token) == CookbookGet(token)

\* chef.cook(options), called by the application
StartCook(c, opts) ==
  /\ Idle(c)
  /\ calls < MaxCalls
  /\ calls' = calls + 1
  /\ stack' = [stack EXCEPT ![c] = <<CookFrame(opts)>>]
  /\ result' = [result EXCEPT ![c] = NoRet]
  /\ lastCall' = [lastCall EXCEPT ![c] = [op |-> "cook", opts |-> opts]]
  /\ UNCHANGED <<cookbook, pantry, valueCache, instanceCache, ret, invocations,
                 completions, supplierCalls, lastArgs, served>>

\* the head of the materialization loop: await this.prepare(token) for the next item
CookItem(c) ==
  /\ Running(c, "cook", "item")
  /\ LET f == Top(c)
     IN /\ f.k <= Len(f.order)
        /\ Call(c, [f EXCEPT !.pc = "base"], PrepareFrame(f.order[f.k].token))
  /\ UNCHANGED <<lastCall, cookbook, pantry, valueCache, instanceCache, calls, invocations,
                 completions, supplierCalls, lastArgs, served>>

\* a loop that catches the rejection and goes on with an empty item
SkipFailedItem(c) ==
  Push(c, PreparedItem(Top(c),
                       [rendered |-> Str(<<>>), cost |-> 0, recipeName |-> "pantry",
                        priorityTag |-> Undef],
                       Undef, NoCost, NoHint))

\* `await this.prepare(token)` in the loop has no try around it: the rejection is
\* cook's own
AbortCook(c) == Pop(c, ret[c])

\* a loop that asks for the summary only when there is a budget to save
CookBaseSummaryOnDemand(c) ==
  /\ Running(c, "cook", "base")
  /\ ret[c] # NoRet
  /\ LET f == Top(c)
         o == f.order[f.k]
         ctor == ItemCtor(o.token)
         profile == IF ctor # NoCtor THEN DetailProfile(ctor, o.detail) ELSE NoHint
         materialized == IF profile # NoHint THEN ApplyProfile(profile, ret[c].v)
                         ELSE ret[c].v
         rendered == Render(materialized)
         base == [rendered |-> rendered,
                  cost |-> Count(f.countTokens, rendered),
                  recipeName |-> IF ctor # NoCtor THEN ctor ELSE "pantry",
                  priorityTag |-> IF ctor # NoCtor THEN Priority(ctor) ELSE Undef]
     IN IF ret[c].kind = "throw" THEN AbortCook(c)
        ELSE IF rendered = Undef THEN Pop(c, Throw("TypeError"))
        ELSE IF /\ ctor # NoCtor /\ Compressible(ctor) /\ SummaryRecipe(ctor) # NoHint
                /\ f.budget # NoBudget
        THEN Call(c, [f EXCEPT !.pc = "summary", !.cur = base],
                  PrepareFrame(SummaryRecipe(ctor)))
        ELSE Push(c, PreparedItem(f, base, Undef, NoCost, NoHint))
  /\ UNCHANGED <<lastCall, cookbook, pantry, valueCache, instanceCache, calls, invocations,
                 completions, supplierCalls, lastArgs, served>>

\* with the base value: detail profile, rendering, cost, then the summary attempt
CookBase(c) ==
  /\ Running(c, "cook", "base")
  /\ ret[c] # NoRet
  /\ LET f == Top(c)
         o == f.order[f.k]
         ctor == ItemCtor(o.token)
         profile == IF ctor # NoCtor THEN DetailProfile(ctor, o.detail) ELSE NoHint
         materialized == IF profile # NoHint THEN ApplyProfile(profile, ret[c].v)
                         ELSE ret[c].v
         rendered == Render(materialized)
         base == [rendered |-> rendered,
                  cost |-> Count(f.countTokens, rendered),
                  recipeName |-> IF ctor # NoCtor THEN ctor ELSE "pantry",
                  priorityTag |-> IF ctor # NoCtor THEN Priority(ctor) ELSE Undef]
     IN IF ret[c].kind = "throw" THEN AbortCook(c)
        ELSE IF rendered = Undef THEN Pop(c, Throw("TypeError"))  \* undefined.length
        ELSE IF ctor # NoCtor /\ Compressible(ctor) /\ SummaryRecipe(ctor) # NoHint
        THEN Call(c, [f EXCEPT !.pc = "summary", !.cur = base],
                  PrepareFrame(SummaryRecipe(ctor)))
        ELSE Push(c, PreparedItem(f, base, Undef, NoCost, NoHint))
  /\ UNCHANGED <<lastCall, cookbook, pantry, valueCache, instanceCache, calls, invocations,
                 completions, supplierCalls, lastArgs, served>>

\* a summary attempt without the try around it: its rejection is cook's own
CookSummaryUncaught(c) ==
  /\ Running(c, "cook", "summary")
  /\ ret[c] # NoRet
  /\ LET f == Top(c)
         summaryToken == SummaryRecipe(ItemCtor(f.order[f.k].token))
         summaryStr == IF ret[c].kind = "value" THEN Render(ret[c].v) ELSE Undef
     IN IF ret[c].kind = "throw" THEN Pop(c, ret[c])
        ELSE Push(c, PreparedItem(f, f.cur, summaryStr,
                                  Count(f.countTokens, summaryStr), summaryToken))
  /\ UNCHANGED <<lastCall, cookbook, pantry, valueCache, instanceCache, calls, invocations,
                 completions, supplierCalls, lastArgs, served>>

\* after the summary attempt: a failure leaves the item without a fallback
CookSummary(c) ==
  /\ Running(c, "cook", "summary")
  /\ ret[c] # NoRet
  /\ LET f == Top(c)
         summaryToken == SummaryRecipe(ItemCtor(f.order[f.k].token))
         summaryStr == IF ret[c].kind = "value" THEN Render(ret[c].v) ELSE Undef
         item == IF summaryStr = Undef
                 THEN PreparedItem(f, f.cur, Undef, NoCost, NoHint)
                 ELSE PreparedItem(f, f.cur, summaryStr,
                                   Count(f.countTokens, summaryStr), summaryToken)
     IN Push(c, item)
  /\ UNCHANGED <<lastCall, cookbook, pantry, valueCache, instanceCache, calls, invocations,
                 completions, supplierCalls, lastArgs, served>>

-----------------------------------------------------------------------------
(* cook, phase 2: selection under budget                                  *)

Min(a, b) == IF a <= b THEN a ELSE b

\* JavaScript truthiness of a string or undefined
Truthy(x) == x # Undef /\ x.s # <<>>

MapSet(m, key, v) == [i \in DOMAIN m \cup {key} |-> IF i = key THEN v ELSE m[i]]

\* a planner that saves tokens also when no budget is given
NoBudgetDecisionSaving(item) ==
  IF Truthy(item.compressedRendered) /\ item.compressedCost < item.baselineCost
  THEN [include |-> TRUE, forced |-> item.index = 0, usedCompressed |-> TRUE,
        usedRendered |-> item.compressedRendered, usedCost |-> item.compressedCost,
        reason |-> "no budget provided"]
  ELSE [include |-> TRUE, forced |-> item.index = 0, usedCompressed |-> FALSE,
        usedRendered |-> item.baselineRendered, usedCost |-> item.baselineCost,
        reason |-> "no budget provided"]

\* the decision for an item when no budget is given
NoBudgetDecision(item) ==
  [include |-> TRUE, forced |-> item.index = 0, usedCompressed |-> FALSE,
   usedRendered |-> item.baselineRendered, usedCost |-> item.baselineCost,
   reason |-> "no budget provided"]

\* a test that takes the compressed form also when it costs the same
UseCompressedFirstOrEqual(first) ==
  /\ Truthy(first.compressedRendered)
  /\ first.compressedCost # NoCost
  /\ first.compressedCost <= first.baselineCost

\* whether the first item is served in its compressed form
UseCompressedFirst(first) ==
  /\ Truthy(first.compressedRendered)
  /\ first.compressedCost # NoCost
  /\ first.compressedCost < first.baselineCost

\* the decision for preparedItems[0] under a budget
FirstDecision(first) ==
  IF UseCompressedFirst(first)
  THEN [include |-> TRUE, forced |-> TRUE, usedCompressed |-> TRUE,
        usedRendered |-> first.compressedRendered, usedCost |-> first.compressedCost,
        reason |-> "first item is always included (compressed to save budget)"]
  ELSE [include |-> TRUE, forced |-> TRUE, usedCompressed |-> FALSE,
        usedRendered |-> first.baselineRendered, usedCost |-> first.baselineCost,
        reason |-> "first item is always included"]

\* Math.min(baselineCost, compressedCost ?? Infinity)
MinCost(item) ==
  IF item.compressedCost = NoCost THEN item.baselineCost
  ELSE Min(item.baselineCost, item.compressedCost)

\* a comparator without the cost key
CompareCandidatesNoCost(a, b) ==
  IF b.priorityScore # a.priorityScore THEN b.priorityScore - a.priorityScore
  ELSE a.index - b.index

\* the comparator of the candidate sort: negative when a goes first
CompareCandidates(a, b) ==
  IF b.priorityScore # a.priorityScore THEN b.priorityScore - a.priorityScore
  ELSE IF MinCost(a) # MinCost(b) THEN MinCost(a) - MinCost(b)
  ELSE a.index - b.index

RECURSIVE Insert(_, _)
Insert(x, sorted) ==
  IF sorted = <<>> THEN <<x>>
  ELSE IF CompareCandidates(x, Head(sorted)) <= 0 THEN <<x>> \o sorted
  ELSE <<Head(sorted)>> \o Insert(x, Tail(sorted))

RECURSIVE Sort(_)
\* Array.prototype.sort with CompareCandidates (stable)
Sort(items) == IF items = <<>> THEN <<>> ELSE Insert(Head(items), Sort(Tail(items)))

\* a sort that forgets to leave the first item out
CandidatesUnsliced(preparedItems) == Sort(preparedItems)

\* candidates that hold a token once only, its first occurrence in the order
CandidatesOncePerToken(preparedItems) ==
  Sort(SelectSeq(Tail(preparedItems),
                 LAMBDA item : \A j \in 1..Len(preparedItems) :
                                 preparedItems[j].token = item.token =>
                                   preparedItems[j].index >= item.index))

\* preparedItems.slice(1).sort(...)
Candidates(preparedItems) == Sort(Tail(preparedItems))

\* a test that admits a candidate while the budget has any room left
FitsIfRoom(plannedTotal, cost, budget) == plannedTotal < budget

\* a test that lets an item that costs nothing pass
FitsOrFree(plannedTotal, cost, budget) == cost = 0 \/ plannedTotal + cost <= budget

\* a test of the item's cost alone against the budget
FitsAlone(plannedTotal, cost, budget) == cost <= budget

\* plannedTotal + cost <= budget
Fits(plannedTotal, cost, budget) == plannedTotal + cost <= budget

\* whether the candidate has a compressed fallback the planner can use
HasFallback(cand) == Truthy(cand.compressedRendered) /\ cand.compressedCost # NoCost

\* the decision for one candidate against the planner's running total
Decide(cand, plannedTotal, budget) ==
  IF Fits(plannedTotal, cand.baselineCost, budget)
  THEN [include |-> TRUE, forced |-> FALSE, usedCompressed |-> FALSE,
        usedRendered |-> cand.baselineRendered, usedCost |-> cand.baselineCost,
        reason |-> "selected by priority within budget"]
  ELSE IF HasFallback(cand) /\ Fits(plannedTotal, cand.compressedCost, budget)
  THEN [include |-> TRUE, forced |-> FALSE, usedCompressed |-> TRUE,
        usedRendered |-> cand.compressedRendered, usedCost |-> cand.compressedCost,
        reason |-> "compressed to fit budget"]
  ELSE [include |-> FALSE, forced |-> FALSE, usedCompressed |-> FALSE,
        usedRendered |-> cand.baselineRendered,
        usedCost |-> Min(cand.baselineCost,
                         IF cand.compressedCost = NoCost THEN cand.baselineCost
                         ELSE cand.compressedCost),
        reason |-> "excluded due to budget/priority"]

RECURSIVE SumCosts(_)
SumCosts(items) ==
  IF items = <<>> THEN 0 ELSE Head(items).baselineCost + SumCosts(Tail(items))

\* the materialization loop is over
Planning(c) == Running(c, "cook", "item") /\ Top(c).k > Len(Top(c).order)

SetTop(c, f) ==
  /\ stack' = [stack EXCEPT ![c][Len(stack[c])] = f]
  /\ UNCHANGED <<ret, result>>

\* budget === undefined: every item at its baseline
CookPlanAll(c) ==
  /\ Planning(c)
  /\ Top(c).budget = NoBudget
  /\ LET f == Top(c)
         items == f.preparedItems
     IN SetTop(c, [f EXCEPT !.pc = "plate",
                            !.plan = [i \in 0..(Len(items) - 1) |->
                                        NoBudgetDecision(items[i + 1])],
                            !.plannedTotal = SumCosts(items)])
  /\ UNCHANGED <<lastCall, cookbook, pantry, valueCache, instanceCache, calls, invocations,
                 completions, supplierCalls, lastArgs, served>>

\* with a budget: the first item is planned whatever it costs, the others are ranked
CookPlanFirst(c) ==
  /\ Planning(c)
  /\ Top(c).budget # NoBudget
  /\ LET f == Top(c)
         items == f.preparedItems
     IN IF Len(items) > 0
        THEN SetTop(c, [f EXCEPT !.pc = "cand",
                               !.plan = MapSet(<<>>, items[1].index, FirstDecision(items[1])),
                               !.plannedTotal = FirstDecision(items[1]).usedCost,
                               !.candidates = Candidates(items)])
        ELSE SetTop(c, [f EXCEPT !.pc = "cand"])
  /\ UNCHANGED <<lastCall, cookbook, pantry, valueCache, instanceCache, calls, invocations,
                 completions, supplierCalls, lastArgs, served>>

\* one round of the greedy loop over the ranked candidates
CookPlanCandidate(c) ==
  /\ Running(c, "cook", "cand")
  /\ Top(c).ci <= Len(Top(c).candidates)
  /\ LET f == Top(c)
         cand == f.candidates[f.ci]
         d == Decide(cand, f.plannedTotal, f.budget)
     IN SetTop(c, [f EXCEPT !.plan = MapSet(f.plan, cand.index, d),
                            !.plannedTotal = IF d.include THEN @ + d.usedCost ELSE @,
                            !.ci = @ + 1,
                            !.evaluated = Append(@, [index |-> cand.index,
                                                     plannedTotal |-> f.plannedTotal])])
  /\ UNCHANGED <<lastCall, cookbook, pantry, valueCache, instanceCache, calls, invocations,
                 completions, supplierCalls, lastArgs, served>>

-----------------------------------------------------------------------------
(* cook, phase 3: the context and the plates, in the order of the request  *)

\* the decision word of a plate
DecisionOf(d, item, budget) ==
  IF ~d.include THEN "dropped"
  ELSE IF budget = NoBudget THEN "included"
  ELSE IF item.index = 0 THEN "forced-include"
  ELSE "included"

RECURSIVE Plating(_, _, _, _)
\* the loop over preparedItems from position i on, with runningTotal as it stands:
\* the lines, the plates and the final running total
Plating(f, i, runningTotal, acc) ==
  IF i > Len(f.preparedItems) THEN [acc EXCEPT !.runningTotal = runningTotal]
  ELSE LET item == f.preparedItems[i]
       IN IF item.index \notin DOMAIN f.plan
          THEN Plating(f, i + 1, runningTotal, acc)
          ELSE LET d == f.plan[item.index]
                   after == IF d.include THEN runningTotal + d.usedCost ELSE runningTotal
                   plate ==
                     [token |-> item.token,
                      decision |-> DecisionOf(d, item, f.budget),
                      reason |-> d.reason,
                      servedDetail |-> item.detailRequested,
                      priorityTag |-> item.priorityTag,
                      priorityScore |-> item.priorityScore,
                      wasCompressed |-> d.usedCompressed,
                      compressionNote |-> IF d.usedCompressed THEN item.compressionNote
                                          ELSE NoHint,
                      originalCost |-> item.baselineCost,
                      compressedCost |-> item.compressedCost,
                      cost |-> d.usedCost,
                      runningTotalBefore |-> runningTotal,
                      runningTotalAfter |-> after,
                      lineage |-> item.trace]
               IN Plating(f, i + 1, after,
                          [acc EXCEPT
                             !.includedLines = IF d.include
                                               THEN Append(@, d.usedRendered.s \o <<"\n">>)
                                               ELSE @,
                             !.plates = IF f.explain THEN Append(@, plate) ELSE @])

\* a phase 3 that walks the items in the planner's order of selection
CookedInSelectionOrder(f) ==
  LET g == [f EXCEPT !.preparedItems =
              IF @ = <<>> \/ f.budget = NoBudget THEN @ ELSE <<Head(@)>> \o f.candidates]
      out == Plating(g, 1, 0, [includedLines |-> <<>>, plates |-> <<>>, runningTotal |-> 0])
  IN [kind |-> "cooked",
      explain |-> f.explain,
      context |-> Flatten(out.includedLines, <<"\n">>),
      totalTokens |-> out.runningTotal,
      budget |-> f.budget,
      plates |-> out.plates,
      audit |-> [preparedItems |-> f.preparedItems, plan |-> f.plan,
                 plannedTotal |-> f.plannedTotal, candidates |-> f.candidates,
                 evaluated |-> f.evaluated, order |-> f.order]]

\* what cook returns: the context alone, or with explain the totals and the plates
\* too; audit keeps the planner's working state for the properties below
Cooked(f) ==
  LET out == Plating(f, 1, 0, [includedLines |-> <<>>, plates |-> <<>>, runningTotal |-> 0])
  IN [kind |-> "cooked",
      explain |-> f.explain,
      context |-> Flatten(out.includedLines, <<"\n">>),
      totalTokens |-> out.runningTotal,
      budget |-> f.budget,
      plates |-> out.plates,
      audit |-> [preparedItems |-> f.preparedItems, plan |-> f.plan,
                 plannedTotal |-> f.plannedTotal, candidates |-> f.candidates,
                 evaluated |-> f.evaluated, order |-> f.order]]

\* phase 3 and the return
CookPlate(c) ==
  /\ \/ Running(c, "cook", "plate")
     \/ Running(c, "cook", "cand") /\ Top(c).ci > Len(Top(c).candidates)
  /\ Pop(c, Cooked(Top(c)))
  /\ UNCHANGED <<lastCall, cookbook, pantry, valueCache, instanceCache, calls, invocations,
                 completions, supplierCalls, lastArgs, served>>

-----------------------------------------------------------------------------
(* The calls of the application                                            *)

CookBudget == 6   \* the budget of the cook calls that give one

\* the orders the application cooks: the two of examples/, orders over the sub-path
\* recipes, orders with an item that cannot be resolved, and no order at all
Orders ==
  { <<Bare("SystemDirective"), Bare("ConversationHistory")>>,
    <<Bare("StoryOutline")>>,
    <<Bare("SystemDirective"), Bare("Root"), Bare("PickItem")>>,
    <<Bare("SystemDirective"), Bare("Orphan")>>,
    <<Bare("PickGone"), Bare("SystemDirective")>>,
    <<Detailed("Root", "summary"), Detailed("Settings", NoHint), Bare("Characters")>>,
    <<Detailed("Root", "bullets"), Detailed("sessionId", "summary"),
      Detailed("Root", "toString")>>,
    <<>> }

\* the caller's functions: none given, or a tokenizer and a ranker of its own
Callbacks ==
  {[countTokens |-> "default", rankPriority |-> "default"],
   [countTokens |-> "atLeastOne", rankPriority |-> "byIndex"]}

CookRequests ==
  {[order |-> o, budget |-> b, explain |-> e,
    countTokens |-> f.countTokens, rankPriority |-> f.rankPriority] :
     o \in Orders, b \in {NoBudget, CookBudget}, e \in BOOLEAN, f \in Callbacks}

Init ==
  /\ cookbook = [i \in 1..Len(Registrations) |-> <<Registrations[i], Registrations[i]>>]
  /\ pantry = Construct(PantryInit)
  /\ valueCache = [ctor \in Ctors |-> NotCached]
  /\ instanceCache = {}
  /\ stack = [c \in Callers |-> <<>>]
  /\ ret = [c \in Callers |-> NoRet]
  /\ result = [c \in Callers |-> NoRet]
  /\ calls = 0
  /\ invocations = [ctor \in Ctors |-> 0]
  /\ completions = [ctor \in Ctors |-> 0]
  /\ supplierCalls = [tok \in PantryTokens |-> 0]
  /\ lastArgs = [ctor \in Ctors |-> <<>>]
  /\ served = [ctor \in Ctors |-> NotCached]
  /\ lastCall = [c \in Callers |-> [op |-> "none"]]

Next ==
  \/ \E token \in Tokens : StartResolve(1, token)
  \/ \E token \in Tokens : TraceCall(1, token)
  \/ \E opts \in CookRequests : StartCook(1, opts)
  \/ PrepareStart(1)
  \/ PrepareResume(1)
  \/ InvokeLoop(1)
  \/ InvokeResume(1)
  \/ CookItem(1)
  \/ CookBase(1)
  \/ CookSummary(1)
  \/ CookPlanAll(1)
  \/ CookPlanFirst(1)
  \/ CookPlanCandidate(1)
  \/ CookPlate(1)

Spec == Init /\ [][Next]_vars

-----------------------------------------------------------------------------
(* Two calls in flight on one Chef                                         *)

\* the tokens and the requests of the two concurrent callers
RaceTokens == {"SystemDirective", "ConversationHistory", "ConversationHistorySummary"}

RaceRequests ==
  {[order |-> <<Bare("SystemDirective"), Bare("ConversationHistory")>>,
    budget |-> b, explain |-> TRUE, countTokens |-> "default", rankPriority |-> "default"] :
     b \in {NoBudget, CookBudget}}

\* as in Promise.all([chef.prepare(..), chef.cook(..)]): each caller makes one call
\* and the steps of the two interleave at their awaits
RaceNext ==
  \E c \in Callers :
    \/ \E token \in RaceTokens : lastCall[c].op = "none" /\ StartResolve(c, token)
    \/ \E opts \in RaceRequests : lastCall[c].op = "none" /\ StartCook(c, opts)
    \/ PrepareStart(c)
    \/ PrepareResume(c)
    \/ InvokeLoop(c)
    \/ InvokeResume(c)
    \/ CookItem(c)
    \/ CookBase(c)
    \/ CookSummary(c)
    \/ CookPlanAll(c)
    \/ CookPlanFirst(c)
    \/ CookPlanCandidate(c)
    \/ CookPlate(c)

SpecRace == Init /\ [][RaceNext]_vars

-----------------------------------------------------------------------------
(* A cookbook with one recipe                                              *)

\* cook() and cook(options) without an order: the order is the whole cookbook
SoloRequests ==
  {[order |-> <<>>, budget |-> b, explain |-> e,
    countTokens |-> f.countTokens, rankPriority |-> f.rankPriority] :
     b \in {NoBudget, CookBudget}, e \in BOOLEAN, f \in Callbacks}

\* the call cook(): no order, no budget, no explain, no functions
NoOptions ==
  [order |-> <<>>, budget |-> NoBudget, explain |-> FALSE,
   countTokens |-> "default", rankPriority |-> "default"]

SoloInit ==
  /\ cookbook = << <<"SystemDirective", "SystemDirective">> >>
  /\ pantry = Construct(PantryInit)
  /\ valueCache = [ctor \in Ctors |-> NotCached]
  /\ instanceCache = {}
  /\ stack = [c \in Callers |-> <<>>]
  /\ ret = [c \in Callers |-> NoRet]
  /\ result = [c \in Callers |-> NoRet]
  /\ calls = 0
  /\ invocations = [ctor \in Ctors |-> 0]
  /\ completions = [ctor \in Ctors |-> 0]
  /\ supplierCalls = [tok \in PantryTokens |-> 0]
  /\ lastArgs = [ctor \in Ctors |-> <<>>]
  /\ served = [ctor \in Ctors |-> NotCached]
  /\ lastCall = [c \in Callers |-> [op |-> "none"]]

SoloNext ==
  \/ \E token \in Tokens : StartResolve(1, token)
  \/ \E token \in Tokens : TraceCall(1, token)
  \/ \E opts \in SoloRequests : StartCook(1, opts)
  \/ PrepareStart(1)
  \/ PrepareResume(1)
  \/ InvokeLoop(1)
  \/ CookItem(1)
  \/ CookBase(1)
  \/ CookPlanAll(1)
  \/ CookPlanFirst(1)
  \/ CookPlate(1)

SpecSolo == SoloInit /\ [][SoloNext]_vars

-----------------------------------------------------------------------------
(* Registrations after the first calls: a second token for a recipe, and a *)
(* token registered again                                                  *)

\* a registration that leaves a token that is taken with the recipe it has
RegisterKeepFirst(c, token, ctor) ==
  /\ Idle(c)
  /\ IF \E i \in 1..Len(cookbook) : cookbook[i][1] = token
     THEN UNCHANGED cookbook
     ELSE cookbook' = Append(cookbook, <<token, ctor>>)
  /\ result' = [result EXCEPT ![c] = NoRet]
  /\ lastCall' = [lastCall EXCEPT ![c] = [op |-> "register", token |-> token, ctor |-> ctor]]
  /\ UNCHANGED <<pantry, valueCache, instanceCache, stack, ret, calls, invocations,
                 completions, supplierCalls, lastArgs, served>>

\* cookbook(ctor) for a class whose `static token` is token: Chef.cookbook.set.
\* A Map keeps the place of a key that is set again.  The application registers
\* between its calls.
Register(c, token, ctor) ==
  /\ Idle(c)
  /\ IF \E i \in 1..Len(cookbook) : cookbook[i][1] = token
     THEN cookbook' = [i \in 1..Len(cookbook) |->
                         IF cookbook[i][1] = token THEN <<token, ctor>> ELSE cookbook[i]]
     ELSE cookbook' = Append(cookbook, <<token, ctor>>)
  /\ result' = [result EXCEPT ![c] = NoRet]
  /\ lastCall' = [lastCall EXCEPT ![c] = [op |-> "register", token |-> token, ctor |-> ctor]]
  /\ UNCHANGED <<pantry, valueCache, instanceCache, stack, ret, calls, invocations,
                 completions, supplierCalls, lastArgs, served>>

\* the classes registered late: two that name the token "Transcript"
LateRegistrations ==
  { <<"Transcript", "ConversationHistory">>, <<"Transcript", "SystemDirective">> }

\* the tokens the application resolves around the late registrations
RegistryTokens == {"Transcript", "ConversationHistory", "SystemDirective"}

RegistryNext ==
  \/ \E r \in LateRegistrations : Register(1, r[1], r[2])
  \/ \E token \in RegistryTokens : StartResolve(1, token)
  \/ PrepareStart(1)
  \/ PrepareResume(1)
  \/ InvokeLoop(1)
  \/ InvokeResume(1)

SpecRegistry == Init /\ [][RegistryNext]_vars

-----------------------------------------------------------------------------
(* A cookbook with ingredients that resolve to undefined                   *)

HollowInit ==
  /\ cookbook = [i \in 1..(Len(Registrations) + Len(HollowRegistrations)) |->
                   LET r == (Registrations \o HollowRegistrations)[i] IN <<r, r>>]
  /\ pantry = Construct(PantryInit)
  /\ valueCache = [ctor \in Ctors |-> NotCached]
  /\ instanceCache = {}
  /\ stack = [c \in Callers |-> <<>>]
  /\ ret = [c \in Callers |-> NoRet]
  /\ result = [c \in Callers |-> NoRet]
  /\ calls = 0
  /\ invocations = [ctor \in Ctors |-> 0]
  /\ completions = [ctor \in Ctors |-> 0]
  /\ supplierCalls = [tok \in PantryTokens |-> 0]
  /\ lastArgs = [ctor \in Ctors |-> <<>>]
  /\ served = [ctor \in Ctors |-> NotCached]
  /\ lastCall = [c \in Callers |-> [op |-> "none"]]

SpecHollow == HollowInit /\ [][Next]_vars

-----------------------------------------------------------------------------
(* The default ranker on its own, over drawn priority tags                 *)

ToUpperCase(cs) ==
  [i \in 1..Len(cs) |->
     IF \E j \in 1..26 : Lower[j] = cs[i]
     THEN Upper[CHOOSE j \in 1..26 : Lower[j] = cs[i]]
     ELSE cs[i]]

Capitalize(cs) ==
  IF cs = <<>> THEN cs ELSE ToUpperCase(<<Head(cs)>>) \o Tail(cs)

\* the words of the table, two words it does not have, the empty string, and
\* names of members of Object.prototype
RankWords ==
  {<<"c", "r", "i", "t", "i", "c", "a", "l">>, <<"m", "u", "s", "t">>,
   <<"h", "i", "g", "h">>, <<"n", "o", "r", "m", "a", "l">>,
   <<"m", "e", "d", "i", "u", "m">>, <<"l", "o", "w">>,
   <<"o", "p", "t", "i", "o", "n", "a", "l">>,
   <<"u", "r", "g", "e", "n", "t">>, <<"l", "o", "w", "e", "r">>, <<>>,
   <<"t", "o", "S", "t", "r", "i", "n", "g">>} \cup InheritedNames

\* static priority: undefined, a number, or a string in some spelling
RankTags ==
  {Undef} \cup {Num(n) : n \in 0..MaxPrio} \cup
  {Str(w) : w \in RankWords} \cup {Str(ToUpperCase(w)) : w \in RankWords} \cup
  {Str(Capitalize(w)) : w \in RankWords}

\* the descriptor cook hands to the ranker
RankInfos ==
  {[token |-> tok, recipeName |-> IF tok \in Ctors THEN tok ELSE "pantry",
    priorityTag |-> tag, index |-> i] :
     tok \in {"Root", "sessionId"}, tag \in RankTags, i \in 0..1}

RankFrame(info) == [op |-> "rank", pc |-> "start", info |-> info]

RankInit ==
  /\ cookbook = [i \in 1..Len(Registrations) |-> <<Registrations[i], Registrations[i]>>]
  /\ pantry = Construct(PantryInit)
  /\ valueCache = [ctor \in Ctors |-> NotCached]
  /\ instanceCache = {}
  /\ ret = [c \in Callers |-> NoRet]
  /\ result = [c \in Callers |-> NoRet]
  /\ calls = 1
  /\ invocations = [ctor \in Ctors |-> 0]
  /\ completions = [ctor \in Ctors |-> 0]
  /\ supplierCalls = [tok \in PantryTokens |-> 0]
  /\ lastArgs = [ctor \in Ctors |-> <<>>]
  /\ served = [ctor \in Ctors |-> NotCached]
  /\ \E info \in RankInfos :
       /\ stack = [c \in Callers |-> IF c = 1 THEN <<RankFrame(info)>> ELSE <<>>]
       /\ lastCall = [c \in Callers |->
                        IF c = 1 THEN [op |-> "rank", info |-> info] ELSE [op |-> "none"]]

\* priorityScore: rankPriorityFn(info) with no ranker of the caller's
RankApply(c) ==
  /\ Running(c, "rank", "start")
  /\ LET score == defaultRankPriority(Top(c).info)
     IN Pop(c, Value(IF score = NotANumber THEN [t |-> "fn"] ELSE Num(score)))
  /\ UNCHANGED <<lastCall, cookbook, pantry, valueCache, instanceCache, calls, invocations,
                 completions, supplierCalls, lastArgs, served>>

RankNext == RankApply(1)

SpecRank == RankInit /\ [][RankNext]_vars

-----------------------------------------------------------------------------
(* A cookbook with a dependency cycle                                      *)

\* prepare and invokeRecipe call each other without a suspension in between, so a
\* recursion that does not end exhausts the call stack: the runtime throws a
\* RangeError in the innermost call, which rejects its promise.  MaxDepth stands
\* for the depth of the call stack.
StackOverflow(c) ==
  /\ Len(stack[c]) = MaxDepth
  /\ \/ /\ Running(c, "prepare", "start")
        /\ ~PantryHas(Top(c).token)
        /\ CookbookGet(Top(c).token) # NoCtor
        /\ ~CacheHas(CookbookGet(Top(c).token))
     \/ /\ Running(c, "invoke", "loop")
        /\ Top(c).i <= Len(ingredient(Top(c).ctor))
  /\ Pop(c, Throw("RangeError"))
  /\ UNCHANGED <<lastCall, cookbook, pantry, valueCache, instanceCache, calls, invocations,
                 completions, supplierCalls, lastArgs, served>>

CycleInit ==
  /\ cookbook = [i \in 1..(Len(Registrations) + Len(CyclicRegistrations)) |->
                   LET r == (Registrations \o CyclicRegistrations)[i] IN <<r, r>>]
  /\ pantry = Construct(PantryInit)
  /\ valueCache = [ctor \in Ctors |-> NotCached]
  /\ instanceCache = {}
  /\ stack = [c \in Callers |-> <<>>]
  /\ ret = [c \in Callers |-> NoRet]
  /\ result = [c \in Callers |-> NoRet]
  /\ calls = 0
  /\ invocations = [ctor \in Ctors |-> 0]
  /\ completions = [ctor \in Ctors |-> 0]
  /\ supplierCalls = [tok \in PantryTokens |-> 0]
  /\ lastArgs = [ctor \in Ctors |-> <<>>]
  /\ served = [ctor \in Ctors |-> NotCached]
  /\ lastCall = [c \in Callers |-> [op |-> "none"]]

CycleNext ==
  \/ Next
  \/ StackOverflow(1)

SpecCycle == CycleInit /\ [][CycleNext]_vars

-----------------------------------------------------------------------------
(* The planner on its own: cook from the end of its first pass, with the   *)
(* prepared items drawn from bounded sets of texts, fallbacks and scores.  *)

TextOfLen(n) == Str([i \in 1..n |-> "x"])

DrawnTexts == {TextOfLen(0)} \cup {TextOfLen(CharsPerToken * k - 1) : k \in 1..MaxUnits}

\* a prepared item as the first pass leaves it: the costs are the tokenizer's
DrawnItem(index, d, countTokens) ==
  [token |-> Registrations[index + 1],
   detailRequested |-> "full",
   baselineRendered |-> d.base,
   baselineCost |-> Count(countTokens, d.base),
   compressedRendered |-> d.fallback,
   compressedCost |-> IF d.fallback = Undef THEN NoCost ELSE Count(countTokens, d.fallback),
   compressionNote |-> IF d.fallback = Undef THEN NoHint ELSE "summary",
   trace |-> <<>>,
   recipeName |-> Registrations[index + 1],
   priorityTag |-> Undef,
   priorityScore |-> d.score,
   index |-> index]

Draws == [base : DrawnTexts, fallback : DrawnTexts \cup {Undef}, score : 1..MaxPrio]

PlanInit ==
  /\ cookbook = [i \in 1..Len(Registrations) |-> <<Registrations[i], Registrations[i]>>]
  /\ pantry = Construct(PantryInit)
  /\ valueCache = [ctor \in Ctors |-> NotCached]
  /\ instanceCache = {}
  /\ ret = [c \in Callers |-> NoRet]
  /\ result = [c \in Callers |-> NoRet]
  /\ calls = 1
  /\ invocations = [ctor \in Ctors |-> 0]
  /\ completions = [ctor \in Ctors |-> 0]
  /\ supplierCalls = [tok \in PantryTokens |-> 0]
  /\ lastArgs = [ctor \in Ctors |-> <<>>]
  /\ served = [ctor \in Ctors |-> NotCached]
  /\ lastCall = [c \in Callers |-> [op |-> IF c = 1 THEN "cook" ELSE "none"]]
  /\ \E n \in 1..MaxItems, budget \in {NoBudget} \cup 0..MaxBudget,
        countTokens \in {"default", "atLeastOne"} :
       \E ds \in [0..(n - 1) -> Draws] :
          /\ ds[0].score = 1
          /\ LET items == [i \in 1..n |-> DrawnItem(i - 1, ds[i - 1], countTokens)]
                 order == [i \in 1..n |->
                             [token |-> items[i].token, detail |-> "full", index |-> i - 1]]
             IN stack = [c \in Callers |->
                           IF c = 1
                           THEN <<[op |-> "cook", pc |-> "item", budget |-> budget,
                                   explain |-> TRUE, countTokens |-> countTokens,
                                   rankPriority |-> "default", order |-> order,
                                   k |-> n + 1, cur |-> <<>>, preparedItems |-> items,
                                   plan |-> <<>>, plannedTotal |-> 0, candidates |-> <<>>,
                                   ci |-> 1, evaluated |-> <<>>]>>
                           ELSE <<>>]

PlanNext ==
  \/ CookPlanAll(1)
  \/ CookPlanFirst(1)
  \/ CookPlanCandidate(1)
  \/ CookPlate(1)

SpecPlan == PlanInit /\ [][PlanNext]_vars

-----------------------------------------------------------------------------
(* Properties                                                              *)

\* the rendering a decision serves, as a line of the context
Line(d) == d.usedRendered.s \o <<"\n">>

StartsWith(cs, prefix) ==
  Len(prefix) <= Len(cs) /\ SubSeq(cs, 1, Len(prefix)) = prefix

\* cook has returned to caller 1 with a result
HasCooked == result[1].kind = "cooked"

\* C1: in a cook call with a budget and a non-empty order the first item is planned
\* as included, its rendering opens the context, its cost is part of the total, and
\* with explain its plate (the first one) says "forced-include", whatever the item
\* costs and whatever the budget is.
C1_FirstItemForced ==
  (HasCooked /\ result[1].budget # NoBudget /\ Len(result[1].audit.order) > 0) =>
    LET a == result[1].audit
        first == a.preparedItems[1]
    IN /\ 0 \in DOMAIN a.plan
       /\ a.plan[0].include
       /\ a.plan[0].usedRendered \in {first.baselineRendered, first.compressedRendered}
       /\ StartsWith(result[1].context, Line(a.plan[0]))
       /\ result[1].totalTokens >= a.plan[0].usedCost
       /\ result[1].explain =>
            /\ Len(result[1].plates) >= 1
            /\ result[1].plates[1].token = a.order[1].token
            /\ result[1].plates[1].decision = "forced-include"

\* C1 witness: a first item that alone costs more than the budget and is served
C1_Witness ==
  /\ HasCooked /\ result[1].budget # NoBudget /\ result[1].explain
  /\ result[1].plates[1].decision = "forced-include"
  /\ result[1].plates[1].cost > result[1].budget
  /\ Len(result[1].plates) > 1

\* C2: in a cook call without a budget every item is served at its baseline: no
\* plate is compressed, each plate costs its originalCost, the context is made of
\* the baseline rendering of every item, in order, and totalTokens is the sum of
\* the baseline costs.
C2_NoBudgetAllBaseline ==
  (HasCooked /\ result[1].budget = NoBudget) =>
    LET a == result[1].audit
        items == a.preparedItems
    IN /\ result[1].context =
            Flatten([i \in 1..Len(items) |-> items[i].baselineRendered.s \o <<"\n">>],
                    <<"\n">>)
       /\ result[1].totalTokens = SumCosts(items)
       /\ Len(items) = Len(a.order)
       /\ result[1].explain =>
            /\ Len(result[1].plates) = Len(items)
            /\ \A i \in 1..Len(items) :
                 /\ ~result[1].plates[i].wasCompressed
                 /\ result[1].plates[i].cost = result[1].plates[i].originalCost
                 /\ result[1].plates[i].originalCost = items[i].baselineCost
                 /\ result[1].plates[i].decision = "included"

\* C2 witness: no budget, several items, one of them with a cheaper fallback
C2_Witness ==
  /\ HasCooked /\ result[1].budget = NoBudget /\ result[1].explain
  /\ Len(result[1].plates) >= 2
  /\ \E i \in 1..Len(result[1].plates) :
       /\ result[1].plates[i].compressedCost # NoCost
       /\ result[1].plates[i].compressedCost < result[1].plates[i].originalCost

\* the planner's running total at the moment it evaluated the item of that index
EvaluatedAt(a, index) ==
  a.evaluated[CHOOSE j \in 1..Len(a.evaluated) : a.evaluated[j].index = index].plannedTotal

\* the place of the item of that index in the planner's order of evaluation
EvaluatedPos(a, index) ==
  CHOOSE j \in 1..Len(a.evaluated) : a.evaluated[j].index = index

WasEvaluated(a, index) ==
  \E j \in 1..Len(a.evaluated) : a.evaluated[j].index = index

\* C3: in a cook call with a budget a non-first item is dropped only if, when the
\* planner evaluated it, the running total plus its baseline cost exceeded the
\* budget and, when it has a compressed rendering (the empty text included), the
\* running total plus its compressed cost exceeded the budget too.
C3_DroppedOnlyIfNothingFits ==
  (HasCooked /\ result[1].budget # NoBudget) =>
    LET a == result[1].audit
    IN \A i \in 2..Len(a.preparedItems) :
         LET item == a.preparedItems[i]
         IN ~a.plan[i - 1].include =>
              /\ WasEvaluated(a, i - 1)
              /\ EvaluatedAt(a, i - 1) + item.baselineCost > result[1].budget
              /\ item.compressedRendered # Undef =>
                   EvaluatedAt(a, i - 1) + item.compressedCost > result[1].budget

\* C3, where it holds: an item dropped while the budget had room for its compressed
\* rendering has the empty text as that rendering
C3_DroppedWithRoomIsEmptyText ==
  (HasCooked /\ result[1].budget # NoBudget) =>
    LET a == result[1].audit
    IN \A i \in 2..Len(a.preparedItems) :
         LET item == a.preparedItems[i]
         IN ~a.plan[i - 1].include =>
              /\ WasEvaluated(a, i - 1)
              /\ EvaluatedAt(a, i - 1) + item.baselineCost > result[1].budget
              /\ (item.compressedRendered # Undef /\ item.compressedRendered.s # <<>>) =>
                   EvaluatedAt(a, i - 1) + item.compressedCost > result[1].budget

\* C4: in a cook call with a budget, of two non-first items with different priority
\* scores the higher one is evaluated first, whatever their positions in the order;
\* and when the two have equal baseline and equal compressed costs, the lower one
\* is included only if the higher one is.
C4_HigherPriorityFirst ==
  (HasCooked /\ result[1].budget # NoBudget) =>
    LET a == result[1].audit
        items == a.preparedItems
    IN \A i, j \in 2..Len(items) :
         items[i].priorityScore > items[j].priorityScore =>
           /\ EvaluatedPos(a, i - 1) < EvaluatedPos(a, j - 1)
           /\ ( /\ items[i].baselineCost = items[j].baselineCost
                /\ items[i].compressedCost = items[j].compressedCost
                /\ a.plan[j - 1].include ) => a.plan[i - 1].include

\* C4, its first half alone: the higher-priority item is evaluated first
C4_EvaluatedByPriority ==
  (HasCooked /\ result[1].budget # NoBudget) =>
    LET a == result[1].audit
        items == a.preparedItems
    IN \A i, j \in 2..Len(items) :
         items[i].priorityScore > items[j].priorityScore =>
           EvaluatedPos(a, i - 1) < EvaluatedPos(a, j - 1)

\* the last call of caller 1 was resolve(token) and it has settled
Resolved(token) ==
  Idle(1) /\ lastCall[1] = [op |-> "resolve", token |-> token]

\* C5: once a resolve of a provider-backed token has succeeded, every later resolve
\* of it (direct, as an ingredient, or inside cook) returns the very value that was
\* handed out first (to the application from the bottom frame, to the awaiting frame
\* otherwise), at once, without another invocation of the provider's prepare; and
\* the cached value never changes.
C5_LaterResolveServesCache ==
  [][ /\ \A ctor \in Ctors :
           served[ctor] # NotCached => valueCache'[ctor] = served[ctor]
      /\ ( /\ Running(1, "prepare", "start")
           /\ pantry[Top(1).token] = NoEntry
           /\ CookbookGet(Top(1).token) # NoCtor
           /\ served[CookbookGet(Top(1).token)] # NotCached )
         => /\ Len(stack'[1]) = Len(stack[1]) - 1
            /\ (IF Len(stack[1]) = 1 THEN result'[1] ELSE ret'[1]) =
                 Value(served[CookbookGet(Top(1).token)])
            /\ invocations' = invocations ]_vars

\* C5 witness: a first call that resolved ConversationHistory (its summary was
\* prepared from it) and a second call, resolve("ConversationHistory"), that
\* returned the same session log with prepare invoked once
C5_Witness ==
  /\ calls = 2
  /\ Resolved("ConversationHistory")
  /\ result[1] = Value(SessionLog(1))
  /\ invocations["ConversationHistory"] = 1
  /\ invocations["ConversationHistorySummary"] = 1
  /\ lastArgs["ConversationHistorySummary"] = <<SessionLog(1)>>

\* C6 as stated: each provider's prepare is invoked at most once, failed calls
\* included
C6_InvokedAtMostOnce ==
  \A ctor \in Ctors : invocations[ctor] <= 1

\* C6: with every call awaited before the next starts, each provider's prepare
\* returns a value at most once, and a value is cached only for a provider whose
\* prepare has returned one; a prepare that threw is not cached and a later resolve
\* invokes it again.
C6_CompletedAtMostOnce ==
  \A ctor \in Ctors :
    /\ completions[ctor] <= 1
    /\ valueCache[ctor] # NotCached => completions[ctor] = 1
    /\ invocations[ctor] >= completions[ctor]

\* C6 witness: Characters failed in one call and was invoked again in the next
C6_Witness ==
  /\ Idle(1)
  /\ invocations["Characters"] = 2
  /\ completions["Characters"] = 1
  /\ valueCache["Characters"] = Cast(2)

\* C7: for a token that is both in the pantry and in the cookbook, resolve gives the
\* pantry's value (or the supplier's result); the recipe of that name is never
\* instantiated nor invoked, and the value cache never holds anything for it.
C7_PantryShadowsRecipe ==
  \A tok \in PantryTokens :
    (pantry[tok] # NoEntry /\ CookbookGet(tok) # NoCtor) =>
      /\ invocations[CookbookGet(tok)] = 0
      /\ valueCache[CookbookGet(tok)] = NotCached
      /\ CookbookGet(tok) \notin instanceCache
      /\ Resolved(tok) =>
           IF pantry[tok].type = "value"
           THEN result[1] = Value(pantry[tok].value)
           ELSE \E o \in SupplierOutcomes(tok) : o.ok /\ result[1] = Value(o.v)

\* C7 witness: resolve("Settings") has returned the pantry's "dark"
C7_Witness ==
  /\ Resolved("Settings")
  /\ CookbookGet("Settings") = "Settings"
  /\ result[1] = Value(Str(<<"d", "a", "r", "k">>))

\* neither a pantry entry nor a recipe
Unprovided(token) == pantry[token] = NoEntry /\ CookbookGet(token) = NoCtor

\* C8: resolve of a token that is neither in the pantry nor in the cookbook fails;
\* a recipe with such a token among its ingredients is never invoked, nothing is
\* cached for it, and its resolve fails with the same error.
C8_UnprovidedTokenFails ==
  /\ \A tok \in Tokens :
       (Unprovided(tok) /\ Resolved(tok)) => result[1] = Throw("UnresolvedToken")
  /\ \A ctor \in Ctors :
       (\E i \in 1..Len(ingredient(ctor)) : Unprovided(ingredient(ctor)[i].rootToken)) =>
         /\ invocations[ctor] = 0
         /\ valueCache[ctor] = NotCached
         /\ \A tok \in Tokens :
              (CookbookGet(tok) = ctor /\ pantry[tok] = NoEntry /\ Resolved(tok)) =>
                result[1].kind = "throw"

\* C8 witness: resolve("Orphan") failed on its ingredient "missing"
C8_Witness ==
  /\ Resolved("Orphan")
  /\ result[1] = Throw("UnresolvedToken")
  /\ "Orphan" \in instanceCache
  /\ invocations["Orphan"] = 0

\* C9: prepare never receives undefined for a declared ingredient; a recipe whose
\* sub-path finds nothing in the resolved root (PickGone, "Root.a.c") is never
\* invoked nor cached and its resolve fails; a recipe whose sub-path addresses an
\* existing element (PickItem, "Root.a.b[1]" of {a: {b: [10, 20]}}) receives that
\* element, 20.
C9_SubPathAbsentFails ==
  /\ \A ctor \in Ctors :
       /\ invocations[ctor] > 0 => Len(lastArgs[ctor]) = Len(ingredient(ctor))
       /\ \A i \in 1..Len(lastArgs[ctor]) : lastArgs[ctor][i] # Undef
  /\ invocations["PickGone"] = 0
  /\ valueCache["PickGone"] = NotCached
  /\ Resolved("PickGone") => result[1] = Throw("ContractViolation")
  /\ invocations["PickItem"] > 0 => lastArgs["PickItem"] = <<Num(20)>>
  /\ Resolved("PickItem") => result[1] = Value(Num(20))

\* C9 witness: PickItem was prepared with 20, then resolve("PickGone") failed on a
\* root that had resolved
C9_Witness ==
  /\ Resolved("PickGone")
  /\ result[1] = Throw("ContractViolation")
  /\ served["Root"] # NotCached
  /\ invocations["PickItem"] = 1
  /\ lastArgs["PickItem"] = <<Num(20)>>

\* C10: when the resolution of an order item's baseline value fails, cook ends at
\* once with that failure as its only outcome: no context, plates or totals,
\* wherever the item stands in the order and whatever was materialized before.
C10_FailedItemAbortsCook ==
  [][ (Running(1, "cook", "base") /\ ret[1].kind = "throw")
        => /\ Idle(1)'
           /\ result'[1] = ret[1]
           /\ result'[1].kind = "throw" ]_vars

\* C10 witness: a cook that failed on its second item after the first one had been
\* prepared
C10_Witness ==
  /\ Idle(1)
  /\ lastCall[1].op = "cook"
  /\ lastCall[1].opts.order = <<Bare("SystemDirective"), Bare("Orphan")>>
  /\ invocations["SystemDirective"] = 1
  /\ result[1] = Throw("UnresolvedToken")

\* C11: a rejection of the summary token's resolve never ends cook: in the next
\* step the item joins preparedItems with its baseline and no compressed fallback
\* (no compressed rendering, no compressed cost), and every item without a fallback
\* is planned at its baseline.
C11_SummaryFailureSwallowed ==
  [][ /\ (Running(1, "cook", "summary") /\ ret[1].kind = "throw") =>
           /\ Running(1, "cook", "item")'
           /\ Top(1)'.k = Top(1).k + 1
           /\ Top(1)'.preparedItems # <<>>
           /\ SubSeq(Top(1)'.preparedItems, 1, Len(Top(1).preparedItems)) =
                Top(1).preparedItems
           /\ LET item == Top(1)'.preparedItems[Len(Top(1).preparedItems) + 1]
              IN /\ item.token = Top(1).order[Top(1).k].token
                 /\ item.baselineRendered = Top(1).cur.rendered
                 /\ item.baselineCost = Top(1).cur.cost
                 /\ item.compressedRendered = Undef
                 /\ item.compressedCost = NoCost
      /\ HasCooked' =>
           \A i \in 1..Len(result'[1].audit.preparedItems) :
             LET item == result'[1].audit.preparedItems[i]
                 d == result'[1].audit.plan[item.index]
             IN item.compressedCost = NoCost =>
                  /\ ~d.usedCompressed
                  /\ d.usedRendered = item.baselineRendered
                  /\ d.include => d.usedCost = item.baselineCost ]_vars

\* C11 witness: a cook with a budget whose item ConversationHistory resolved to
\* null, so that its summary recipe threw, and which returned its plates
C11_Witness ==
  /\ HasCooked /\ result[1].budget # NoBudget /\ result[1].explain
  /\ invocations["ConversationHistorySummary"] >= 1
  /\ completions["ConversationHistorySummary"] = 0
  /\ Len(result[1].plates) = 2
  /\ result[1].plates[2].token = "ConversationHistory"
  /\ result[1].plates[2].compressedCost = NoCost
  /\ result[1].plates[2].decision = "included"

\* the lines of the plates from position i on that are not dropped
RECURSIVE ServedLines(_, _, _)
ServedLines(plates, items, plan) ==
  IF plates = <<>> THEN <<>>
  ELSE (IF Head(plates).decision = "dropped" THEN <<>>
        ELSE <<plan[Head(items).index].usedRendered.s \o <<"\n">>>>)
       \o ServedLines(Tail(plates), Tail(items), plan)

\* C12: with explain, the plates are those of the order list, in its order; the
\* context is made of the served renderings in that order; the first plate starts
\* at running total 0, each plate starts where the one before ended, an included
\* plate adds its cost and a dropped one adds nothing; totalTokens is the last
\* running total (0 without plates) and equals the total the planner accumulated.
C12_PlatesInOriginalOrder ==
  (HasCooked /\ result[1].explain) =>
    LET plates == result[1].plates
        a == result[1].audit
    IN /\ Len(plates) = Len(a.order)
       /\ \A i \in 1..Len(plates) :
            /\ plates[i].token = a.order[i].token
            /\ plates[i].runningTotalBefore =
                 (IF i = 1 THEN 0 ELSE plates[i - 1].runningTotalAfter)
            /\ plates[i].runningTotalAfter =
                 (IF plates[i].decision = "dropped" THEN plates[i].runningTotalBefore
                  ELSE plates[i].runningTotalBefore + plates[i].cost)
       /\ result[1].totalTokens =
            (IF plates = <<>> THEN 0 ELSE plates[Len(plates)].runningTotalAfter)
       /\ result[1].totalTokens = a.plannedTotal
       /\ result[1].context =
            Flatten(ServedLines(plates, a.preparedItems, a.plan), <<"\n">>)

\* C12 witness: three plates whose planner evaluated the third item before the
\* second (it ranks higher), both served, at different costs
C12_Witness ==
  /\ HasCooked /\ result[1].explain /\ result[1].budget # NoBudget
  /\ Len(result[1].plates) = 3
  /\ result[1].audit.evaluated # <<>>
  /\ result[1].audit.evaluated[1].index = 2
  /\ result[1].plates[2].decision = "included"
  /\ result[1].plates[3].decision = "included"
  /\ result[1].plates[2].cost # result[1].plates[3].cost
  /\ result[1].plates[3].runningTotalBefore > result[1].plates[2].runningTotalBefore

\* the tokens a provider-backed token depends on directly; a pantry token has none
DepTokens(token) ==
  IF pantry[token] # NoEntry \/ CookbookGet(token) = NoCtor THEN {}
  ELSE {ingredient(CookbookGet(token))[i].rootToken :
          i \in 1..Len(ingredient(CookbookGet(token)))}

RECURSIVE Closure(_, _)
Closure(set, n) ==
  LET next == set \cup UNION {DepTokens(t) : t \in set}
  IN IF n = 0 \/ next = set THEN set ELSE Closure(next, n - 1)

\* the root and every token reachable from it through ingredient descriptors
Reach(token) == Closure({token}, Cardinality(Tokens))

\* the last call of caller 1 was trace(token) and it has settled
TraceSettled(token) ==
  Idle(1) /\ lastCall[1] = [op |-> "trace", token |-> token]

\* C13: on an acyclic dependency graph, trace(token) of a token whose reachable
\* tokens are all provided returns a list holding the root and every reachable
\* token exactly once, also a token reached along several paths, and no other
\* token; with an unprovided token in reach it fails.
C13_TraceListsReachableOnce ==
  \A tok \in Tokens :
    TraceSettled(tok) =>
      IF \A t \in Reach(tok) : ~Unprovided(t)
      THEN /\ result[1].kind = "value"
           /\ LET e == result[1].v.e
              IN /\ {e[i].token : i \in 1..Len(e)} = Reach(tok)
                 /\ Len(e) = Cardinality(Reach(tok))
                 /\ \A i, j \in 1..Len(e) : e[i].token = e[j].token => i = j
      ELSE result[1].kind = "throw"

\* C13 witness: trace("StoryOutline"), whose storySeed is an ingredient of
\* StoryOutline itself and of its other ingredient Characters: three entries
C13_Witness ==
  /\ TraceSettled("StoryOutline")
  /\ result[1].kind = "value"
  /\ Len(result[1].v.e) = 3
  /\ {result[1].v.e[i].token : i \in 1..3} = {"storySeed", "Characters", "StoryOutline"}

\* C14: trace of a token without ingredients returns one entry with empty deps: a
\* provider without ingredients is named by its class, a pantry token, also one
\* that shadows a provider with ingredients, is named "pantry".
C14_TraceOfLeaf ==
  \A tok \in Tokens :
    TraceSettled(tok) =>
      /\ pantry[tok] # NoEntry =>
           result[1] = Value([t |-> "entries",
                              e |-> <<[token |-> tok, providerName |-> "pantry",
                                       deps |-> <<>>]>>])
      /\ ( /\ pantry[tok] = NoEntry
           /\ CookbookGet(tok) # NoCtor
           /\ IngredientSpecs(CookbookGet(tok)) = <<>> ) =>
           result[1] = Value([t |-> "entries",
                              e |-> <<[token |-> tok, providerName |-> CookbookGet(tok),
                                       deps |-> <<>>]>>])

\* C14 witness: trace("Settings"), a pantry value that shadows the recipe Settings
\* with its ingredient Root
C14_Witness ==
  /\ TraceSettled("Settings")
  /\ IngredientSpecs(CookbookGet("Settings")) # <<>>
  /\ result[1].kind = "value"
  /\ result[1].v.e[1].providerName = "pantry"

\* C15: a trace call, whether it returns or fails, invokes no prepare and no pantry
\* supplier and leaves the value cache and the instance cache as they were.
C15_TraceIsPure ==
  [][ (calls' # calls /\ lastCall'[1].op = "trace") =>
        /\ invocations' = invocations
        /\ completions' = completions
        /\ supplierCalls' = supplierCalls
        /\ valueCache' = valueCache
        /\ instanceCache' = instanceCache
        /\ Idle(1)' ]_vars

\* C15 witness: after a resolve that filled the caches, a trace of StoryOutline
\* returned with none of its providers invoked or instantiated
C15_Witness ==
  /\ calls = 2
  /\ TraceSettled("StoryOutline")
  /\ result[1].kind = "value"
  /\ valueCache["SystemDirective"] # NotCached
  /\ instanceCache = {"SystemDirective"}
  /\ invocations["StoryOutline"] = 0 /\ invocations["Characters"] = 0
  /\ supplierCalls["storySeed"] = 0

\* C16: nothing keeps a second call from invoking a provider whose first resolution
\* is still in flight: whenever a caller's prepare finds a registered recipe, not
\* shadowed by the pantry, with no value cached, its step enters invokeRecipe for it,
\* whatever the other caller is doing; and each instance.prepare counts as an
\* invocation of its own.  (That one provider is invoked twice and the two callers
\* get different values is the witness.)
C16_NoInFlightLock ==
  [][ \A c \in Callers :
        /\ ( /\ Running(c, "prepare", "start")
             /\ stack'[c] # stack[c]
             /\ pantry[Top(c).token] = NoEntry
             /\ CookbookGet(Top(c).token) # NoCtor
             /\ valueCache[CookbookGet(Top(c).token)] = NotCached )
           => /\ Len(stack'[c]) = Len(stack[c]) + 1
              /\ stack'[c][Len(stack'[c])] = InvokeFrame(CookbookGet(Top(c).token))
        /\ ( /\ Running(c, "invoke", "loop")
             /\ stack'[c] # stack[c]
             /\ Top(c).i > Len(ingredient(Top(c).ctor)) )
           => invocations'[Top(c).ctor] = invocations[Top(c).ctor] + 1 ]_vars

\* C16 witness: two concurrent resolves of ConversationHistory, its prepare invoked
\* twice, and the two callers holding different values
C16_Witness ==
  /\ Idle(1) /\ Idle(2)
  /\ lastCall[1] = [op |-> "resolve", token |-> "ConversationHistory"]
  /\ lastCall[2] = [op |-> "resolve", token |-> "ConversationHistory"]
  /\ invocations["ConversationHistory"] = 2
  /\ result[1].kind = "value" /\ result[2].kind = "value"
  /\ result[1] # result[2]

\* a token that is among the tokens reachable from its own ingredients
OnCycle(token) == token \in UNION {Reach(t) : t \in DepTokens(token)}

\* C17: resolve of a token on a dependency cycle of uncached, unshadowed recipes
\* never returns a value and never ends with an error of its own about the cycle:
\* each prepare on the cycle enters invokeRecipe and each invokeRecipe resolves its
\* ingredient, one frame deeper every time, until the call stack is exhausted; no
\* prepare of a recipe on the cycle is ever invoked and nothing is cached for it.
C17_CycleRecursesWithoutBound ==
  [][ /\ \A tok \in Tokens :
           OnCycle(tok) =>
             /\ invocations'[CookbookGet(tok)] = 0
             /\ valueCache'[CookbookGet(tok)] = NotCached
             /\ Resolved(tok)' => result'[1] = Throw("RangeError")
      /\ ( /\ ~Idle(1)
           /\ Top(1).op = "prepare"
           /\ OnCycle(Top(1).token)
           /\ stack'[1] # stack[1] ) =>
           IF Top(1).pc = "start" /\ Len(stack[1]) < MaxDepth
           THEN /\ Len(stack'[1]) = Len(stack[1]) + 1
                /\ stack'[1][Len(stack'[1])] = InvokeFrame(CookbookGet(Top(1).token))
           ELSE /\ Len(stack'[1]) = Len(stack[1]) - 1
                /\ (IF Len(stack[1]) = 1 THEN result'[1] ELSE ret'[1]) = Throw("RangeError")
    ]_vars

\* C17 witness: resolve("Ping") has gone round the cycle to the full depth of the
\* stack (Ping, Pong, Ping, Pong) with nothing invoked
C17_Witness ==
  /\ lastCall[1] = [op |-> "resolve", token |-> "Ping"]
  /\ Len(stack[1]) = MaxDepth
  /\ Running(1, "prepare", "start")
  /\ stack[1][1].token = "Ping" /\ stack[1][3].token = "Pong" /\ stack[1][5].token = "Ping"
  /\ invocations["Ping"] = 0 /\ invocations["Pong"] = 0
  /\ "Ping" \in instanceCache /\ "Pong" \in instanceCache

\* C18: trace(token) returns its list on every graph whose reachable tokens are all
\* provided, a graph with a dependency cycle among recipes included.
C18_TraceTerminatesOnCycle ==
  \A tok \in Tokens :
    (TraceSettled(tok) /\ \A t \in Reach(tok) : ~Unprovided(t)) =>
      result[1].kind = "value"

\* C19: cook() without options on a cookbook of one recipe whose output is a
\* string returns that string as the context, with nothing before or after it.
C19_SoloContextIsTheString ==
  ( /\ HasCooked
    /\ lastCall[1] = [op |-> "cook", opts |-> NoOptions]
    /\ Len(cookbook) = 1
    /\ valueCache[cookbook[1][2]].t = "str" ) =>
    result[1].context = valueCache[cookbook[1][2]].s

\* the value resolve gives for an ingredient's root token, once it is settled
RootValues(token) ==
  IF pantry[token] # NoEntry
  THEN IF pantry[token].type = "value" THEN {pantry[token].value}
       ELSE {o.v : o \in {x \in SupplierOutcomes(token) : x.ok}}
  ELSE {valueCache[CookbookGet(token)]}

C21_UndeclaredDetailServesRaw ==
  HasCooked =>
    \A i \in 1..Len(result[1].audit.preparedItems) :
      LET item == result[1].audit.preparedItems[i]
      IN item.detailRequested \notin DeclaredProfiles(CookbookGet(item.token)) =>
           /\ \E v \in RootValues(item.token) : item.baselineRendered = Render(v)
           /\ result[1].explain =>
                result[1].plates[i].servedDetail = item.detailRequested

\* the same for the labels that name no inherited member of the profiles object
C21_UnknownOwnLabelServesRaw ==
  HasCooked =>
    \A i \in 1..Len(result[1].audit.preparedItems) :
      LET item == result[1].audit.preparedItems[i]
      IN ( /\ item.detailRequested \notin DeclaredProfiles(CookbookGet(item.token))
           /\ item.detailRequested \notin ObjectPrototype ) =>
           /\ \E v \in RootValues(item.token) : item.baselineRendered = Render(v)
           /\ result[1].explain =>
                result[1].plates[i].servedDetail = item.detailRequested

\* the last call of caller 1 was the default ranker on a descriptor, and it returned
Ranked == Idle(1) /\ lastCall[1].op = "rank" /\ result[1].kind = "value"

\* the score the priority table gives a word in lower case; 50 off the table
TableScore(lowered) ==
  CASE lowered = <<"c", "r", "i", "t", "i", "c", "a", "l">> -> 100
    [] lowered = <<"m", "u", "s", "t">> -> 90
    [] lowered = <<"h", "i", "g", "h">> -> 75
    [] lowered = <<"n", "o", "r", "m", "a", "l">> -> 50
    [] lowered = <<"m", "e", "d", "i", "u", "m">> -> 50
    [] lowered = <<"l", "o", "w">> -> 25
    [] lowered = <<"o", "p", "t", "i", "o", "n", "a", "l">> -> 10
    [] OTHER -> 50

\* C22: with no ranker of the caller's, the score is the tag for a numeric tag,
\* the table's number for critical, must, high, normal, medium, low, optional in
\* any case of letters, and 50 for an absent tag and every other string, the
\* names of built-in members of every object included.
C22_DefaultScore ==
  Ranked =>
    LET tag == lastCall[1].info.priorityTag
    IN result[1].v = Num(CASE tag.t = "num" -> tag.n
                           [] tag.t = "str" -> TableScore(ToLowerCase(tag.s))
                           [] OTHER -> 50)

\* the same for the tags that name no inherited member in lower case
C22_DefaultScoreOffInherited ==
  Ranked =>
    LET tag == lastCall[1].info.priorityTag
    IN (tag.t = "str" => ToLowerCase(tag.s) \notin InheritedNames) =>
         result[1].v = Num(CASE tag.t = "num" -> tag.n
                             [] tag.t = "str" -> TableScore(ToLowerCase(tag.s))
                             [] OTHER -> 50)

\* the cook call caller 1 has in progress: its frame is the bottom one
Cooking == ~Idle(1) /\ stack[1][1].op = "cook"

\* C23: without an order, or with an empty one, cook requests every token of the
\* cookbook in registration order with detail "full"; a bare token of a given order
\* gets detail "full"; and every item has its position (from 0) as index, in the
\* normalized order and in the prepared items.
C23_OrderDefaultsToCookbook ==
  Cooking =>
    LET f == stack[1][1]
        given == lastCall[1].opts.order
    IN /\ given = <<>> =>
            /\ Len(f.order) = Len(cookbook)
            /\ \A i \in 1..Len(cookbook) :
                 f.order[i] = [token |-> cookbook[i][1], detail |-> "full", index |-> i - 1]
       /\ given # <<>> =>
            /\ Len(f.order) = Len(given)
            /\ \A i \in 1..Len(given) :
                 /\ f.order[i].token = given[i].token
                 /\ f.order[i].index = i - 1
                 /\ given[i].bare => f.order[i].detail = "full"
                 /\ ~given[i].bare =>
                      f.order[i].detail =
                        IF given[i].detail = NoHint THEN "full" ELSE given[i].detail
       /\ \A i \in 1..Len(f.preparedItems) :
            /\ f.preparedItems[i].token = f.order[i].token
            /\ f.preparedItems[i].detailRequested = f.order[i].detail
            /\ f.preparedItems[i].index = i - 1

\* C23 witness: a cook without an order has prepared the first three registrations
C23_Witness ==
  /\ Cooking
  /\ lastCall[1].opts.order = <<>>
  /\ Len(stack[1][1].preparedItems) = 3
  /\ [i \in 1..3 |-> stack[1][1].preparedItems[i].token] =
       <<"SystemDirective", "ConversationHistory", "ConversationHistorySummary">>

\* the tokens registered to the recipe ctor that the pantry does not shadow
TokensOf(ctor) ==
  {t \in Tokens : CookbookGet(t) = ctor /\ ~PantryHas(t)}

\* C24: the caches are kept by recipe, not by token: for a recipe registered under
\* two tokens, prepare returns a value at most once whichever tokens are resolved
\* (ConversationHistory, which does not fail, is invoked at most once), the recipe
\* has one entry in the instance cache, and a resolve of either token returns the
\* value the first resolve handed out.
C24_CachesKeyedByRecipe ==
  \A ctor \in Ctors :
    Cardinality(TokensOf(ctor)) >= 2 =>
      /\ completions[ctor] <= 1
      /\ ctor = "ConversationHistory" => invocations[ctor] <= 1
      /\ invocations[ctor] > 0 => ctor \in instanceCache
      /\ \A t \in TokensOf(ctor) :
           (Resolved(t) /\ result[1].kind = "value") =>
             /\ result[1].v = served[ctor]
             /\ result[1].v = valueCache[ctor]

\* C24 witness: ConversationHistory was resolved, then "Transcript", its second
\* token, with one invocation of prepare
C24_Witness ==
  /\ TokensOf("ConversationHistory") = {"ConversationHistory", "Transcript"}
  /\ Resolved("Transcript")
  /\ result[1].kind = "value"
  /\ calls = 2
  /\ invocations["ConversationHistory"] = 1
  /\ result[1].v = SessionLog(1)

\* C25: registering a token again replaces its recipe without an error, and every
\* resolve after it returns the output of the recipe registered last, also when
\* this engine holds the output of the recipe registered before.
C25_LastRegistrationWins ==
  [][ /\ \A r \in LateRegistrations :
           lastCall'[1] = [op |-> "register", token |-> r[1], ctor |-> r[2]] =>
             /\ \E i \in 1..Len(cookbook') : cookbook'[i] = <<r[1], r[2]>>
             /\ \A i \in 1..Len(cookbook') : cookbook'[i][1] = r[1] => cookbook'[i][2] = r[2]
             /\ result'[1].kind # "throw"
      /\ \A t \in RegistryTokens :
           ( /\ stack'[1] = <<>>
             /\ lastCall'[1] = [op |-> "resolve", token |-> t]
             /\ result'[1].kind = "value" ) =>
             /\ result'[1].v = valueCache'[CookbookGet(t)]
             /\ \E n \in 1..MaxCalls :
                  \E o \in Recipe(CookbookGet(t), lastArgs'[CookbookGet(t)], n) :
                    o.ok /\ o.v = result'[1].v ]_vars

\* C25 witness: "Transcript" was resolved as ConversationHistory, registered again
\* to SystemDirective, and resolved again: the directive is returned, the cached
\* history is not
C25_Witness ==
  /\ Resolved("Transcript")
  /\ CookbookGet("Transcript") = "SystemDirective"
  /\ valueCache["ConversationHistory"] # NotCached
  /\ served["ConversationHistory"] # NotCached
  /\ calls = 2
  /\ result[1] = Value(Str(<<"#", "#", " ", "O", "B", "J">>))

\* the positions of ctor's ingredients whose root token is tok
Uses(ctor, tok) ==
  {i \in 1..Len(IngredientSpecs(ctor)) : ingredient(ctor)[i].rootToken = tok}

RECURSIVE InvokedUses(_, _)
\* over the recipes of the set: the invocations of prepare, once per ingredient tok
InvokedUses(ctors, tok) ==
  IF ctors = {} THEN 0
  ELSE LET ctor == CHOOSE x \in ctors : TRUE
       IN Cardinality(Uses(ctor, tok)) * invocations[ctor] +
          InvokedUses(ctors \ {ctor}, tok)

Suppliers == {tok \in PantryTokens : pantry[tok].type = "provider"}

\* C26: no supplier is invoked before the first call, and after the application's
\* first call a supplier has been invoked as many times as its token was resolved
\* directly plus as an ingredient of a recipe whose prepare was invoked.
C26_SupplierCallsAreInvokedUses ==
  \A tok \in Suppliers :
    /\ calls = 0 => supplierCalls[tok] = 0
    /\ (calls = 1 /\ Idle(1)) =>
         supplierCalls[tok] =
           (IF lastCall[1] = [op |-> "resolve", token |-> tok] THEN 1 ELSE 0) +
           InvokedUses(Ctors, tok)

\* C26, amended: no supplier is invoked before the first call, and a supplier is
\* invoked once by every run of prepare on its token (a direct resolve, or an
\* ingredient that an invokeRecipe reaches, whether or not the recipe's own
\* prepare is invoked after it) and by nothing else: no value is kept.
C26_SupplierCalledPerResolution ==
  [][ \A tok \in Suppliers :
        /\ calls = 0 => supplierCalls[tok] = 0
        /\ supplierCalls'[tok] =
             supplierCalls[tok] +
               (IF Running(1, "prepare", "start") /\ Top(1).token = tok THEN 1 ELSE 0) ]_vars

\* C26 witness: resolve("StoryOutline") failed on its second ingredient; the supplier
\* of storySeed was called for StoryOutline and for Characters, and StoryOutline's
\* prepare was not invoked
C26_Witness ==
  /\ Resolved("StoryOutline")
  /\ result[1].kind = "throw"
  /\ calls = 1
  /\ supplierCalls["storySeed"] = 2
  /\ invocations["StoryOutline"] = 0
  /\ invocations["Characters"] = 1

\* C27: with a budget, each non-first item is evaluated exactly once, against the
\* planner's running total of that moment: it is included at baseline exactly when
\* total + baseline cost <= budget; it is served compressed only when the baseline
\* did not fit, a fallback exists and total + compressed cost <= budget; and the
\* total the next candidate meets is this one plus the served cost of an inclusion.
C27_GreedyAgainstRunningTotal ==
  (HasCooked /\ result[1].budget # NoBudget /\ result[1].audit.preparedItems # <<>>) =>
    LET a == result[1].audit
        budget == result[1].budget
        n == Len(a.preparedItems)
    IN /\ Len(a.evaluated) = n - 1
       /\ {a.evaluated[j].index : j \in 1..Len(a.evaluated)} = 1..(n - 1)
       /\ \A j \in 1..Len(a.evaluated) :
            LET e == a.evaluated[j]
                item == a.preparedItems[e.index + 1]
                d == a.plan[e.index]
                before == IF j = 1 THEN a.plan[0].usedCost
                          ELSE LET p == a.plan[a.evaluated[j - 1].index]
                               IN a.evaluated[j - 1].plannedTotal +
                                  (IF p.include THEN p.usedCost ELSE 0)
            IN /\ e.plannedTotal = before
               /\ (d.include /\ ~d.usedCompressed) <=>
                    e.plannedTotal + item.baselineCost <= budget
               /\ (d.include /\ ~d.usedCompressed) =>
                    d.usedCost = item.baselineCost /\ d.usedRendered = item.baselineRendered
               /\ d.usedCompressed =>
                    /\ d.include
                    /\ e.plannedTotal + item.baselineCost > budget
                    /\ item.compressedRendered # Undef
                    /\ item.compressedCost # NoCost
                    /\ e.plannedTotal + item.compressedCost <= budget
                    /\ d.usedCost = item.compressedCost
                    /\ d.usedRendered = item.compressedRendered

\* C27 witness: a candidate was served compressed because its baseline did not fit
\* the running total, and the candidate after it met the total grown by that cost
C27_Witness ==
  /\ HasCooked
  /\ result[1].budget # NoBudget
  /\ LET a == result[1].audit
     IN /\ Len(a.evaluated) = 2
        /\ a.plan[0].usedCost > 0
        /\ a.plan[a.evaluated[1].index].usedCompressed
        /\ a.plan[a.evaluated[1].index].usedCost > 0
        /\ a.preparedItems[a.evaluated[1].index + 1].baselineCost <= result[1].budget
        /\ a.evaluated[2].plannedTotal =
             a.plan[0].usedCost + a.plan[a.evaluated[1].index].usedCost

\* the lesser of an item's baseline cost and, if it has one, its compressed cost
CheapestCost(item) ==
  IF item.compressedCost # NoCost /\ item.compressedCost < item.baselineCost
  THEN item.compressedCost
  ELSE item.baselineCost

\* x is evaluated before y: higher score; else lower cheapest cost; else lower index
Precedes(x, y) ==
  \/ x.priorityScore > y.priorityScore
  \/ /\ x.priorityScore = y.priorityScore
     /\ CheapestCost(x) < CheapestCost(y)
  \/ /\ x.priorityScore = y.priorityScore
     /\ CheapestCost(x) = CheapestCost(y)
     /\ x.index < y.index

\* C28: with a budget the planner evaluates the non-first items, all of them and
\* only them, in one total order: score descending, then min(baseline cost,
\* compressed cost if any) ascending, then original index ascending.
C28_EvaluationOrder ==
  (HasCooked /\ result[1].budget # NoBudget /\ result[1].audit.preparedItems # <<>>) =>
    LET a == result[1].audit
        n == Len(a.preparedItems)
    IN /\ [j \in 1..Len(a.evaluated) |-> a.evaluated[j].index] =
            [j \in 1..Len(a.candidates) |-> a.candidates[j].index]
       /\ {a.candidates[j].index : j \in 1..Len(a.candidates)} = 1..(n - 1)
       /\ Len(a.candidates) = n - 1
       /\ \A j, k \in 1..Len(a.candidates) :
            j < k => Precedes(a.candidates[j], a.candidates[k])
       /\ \A j \in 1..Len(a.candidates) :
            a.candidates[j] = a.preparedItems[a.candidates[j].index + 1]

\* C28 witness: of two candidates with the same score the later one of the order
\* is cheaper and was evaluated first
C28_Witness ==
  /\ HasCooked
  /\ result[1].budget # NoBudget
  /\ LET a == result[1].audit
     IN /\ Len(a.evaluated) = 2
        /\ a.evaluated[1].index = 2
        /\ a.evaluated[2].index = 1
        /\ a.preparedItems[2].priorityScore = a.preparedItems[3].priorityScore
        /\ a.preparedItems[3].compressedCost # NoCost
        /\ a.preparedItems[3].compressedCost < a.preparedItems[3].baselineCost
        /\ a.preparedItems[3].baselineCost >= a.preparedItems[2].baselineCost

\* C29: with a budget, the forced first item is served compressed only if it has a
\* compressed fallback whose cost is strictly less than its baseline cost (and, the
\* fallback not being the empty text, whenever that is so), whether or not the
\* baseline fits the budget; otherwise the baseline is served; and the served cost
\* is the running total the first candidate meets and the first plate reports.
C29_FirstItemCompressedOnlyIfCheaper ==
  (HasCooked /\ result[1].budget # NoBudget /\ result[1].audit.preparedItems # <<>>) =>
    LET a == result[1].audit
        first == a.preparedItems[1]
        d == a.plan[0]
        cheaper == /\ first.compressedRendered # Undef
                   /\ first.compressedCost # NoCost
                   /\ first.compressedCost < first.baselineCost
    IN /\ d.include
       /\ d.usedCompressed => cheaper
       /\ (cheaper /\ first.compressedRendered.s # <<>>) => d.usedCompressed
       /\ d.usedCompressed =>
            d.usedCost = first.compressedCost /\ d.usedRendered = first.compressedRendered
       /\ ~d.usedCompressed =>
            d.usedCost = first.baselineCost /\ d.usedRendered = first.baselineRendered
       /\ a.evaluated # <<>> => a.evaluated[1].plannedTotal = d.usedCost
       /\ a.plannedTotal >= d.usedCost
       /\ result[1].explain =>
            /\ result[1].plates[1].runningTotalBefore = 0
            /\ result[1].plates[1].runningTotalAfter = d.usedCost
            /\ result[1].plates[1].cost = d.usedCost
            /\ result[1].plates[1].wasCompressed = d.usedCompressed

\* C29 witness: the first item's baseline fits the budget and it is served compressed
C29_Witness ==
  /\ HasCooked
  /\ result[1].budget # NoBudget
  /\ result[1].audit.preparedItems # <<>>
  /\ result[1].audit.plan[0].usedCompressed
  /\ result[1].audit.preparedItems[1].baselineCost <= result[1].budget
  /\ result[1].audit.evaluated # <<>>
  /\ result[1].audit.evaluated[1].plannedTotal =
       result[1].audit.preparedItems[1].compressedCost

\* frame i of caller 1's stack is suspended on the frame above it and on nothing else
AwaitsAbove(i) ==
  LET f == stack[1][i]
      g == stack[1][i + 1]
  IN CASE f.op = "prepare" ->
            f.pc = "await" /\ g.op = "invoke" /\ g.ctor = f.ctor
       [] f.op = "invoke" ->
            /\ f.pc = "await"
            /\ f.i <= Len(IngredientSpecs(f.ctor))
            /\ g.op = "prepare"
            /\ g.token = ingredient(f.ctor)[f.i].rootToken
       [] f.op = "cook" ->
            /\ g.op = "prepare"
            /\ f.k <= Len(f.order)
            /\ \/ f.pc = "base" /\ g.token = f.order[f.k].token
               \/ f.pc = "summary" /\
                  g.token = SummaryRecipe(CookbookGet(f.order[f.k].token))
       [] OTHER -> FALSE

\* C30: within a call nothing runs in parallel: every frame but the running one
\* awaits the frame right above it; an invokeRecipe that resolves its i-th
\* ingredient holds the values of the i-1 before it, in parameter order, and
\* prepare is invoked with all of them; a cook that materializes its k-th item has
\* prepared the k-1 before it, in request order.
C30_OneThingAtATime ==
  /\ \A i \in 1..(Len(stack[1]) - 1) : AwaitsAbove(i)
  /\ \A i \in 1..Len(stack[1]) :
       LET f == stack[1][i]
       IN /\ f.op = "invoke" =>
               /\ Len(f.args) = f.i - 1
               /\ f.i <= Len(IngredientSpecs(f.ctor)) + 1
               /\ \A j \in 1..Len(f.args) :
                    \E v \in RootValues(ingredient(f.ctor)[j].rootToken) :
                      f.args[j] = Extract(ingredient(f.ctor)[j], v)
          /\ f.op = "cook" =>
               /\ i = 1
               /\ Len(f.preparedItems) = f.k - 1
               /\ \A j \in 1..Len(f.preparedItems) :
                    f.preparedItems[j].token = f.order[j].token
  /\ \A ctor \in Ctors :
       invocations[ctor] > 0 => Len(lastArgs[ctor]) = Len(IngredientSpecs(ctor))

\* C30 witness: StoryOutline holds its first ingredient and awaits its second,
\* Characters, which is resolving its own ingredient; no prepare has been invoked
C30_Witness ==
  /\ Len(stack[1]) = 5
  /\ stack[1][2].op = "invoke"
  /\ stack[1][2].ctor = "StoryOutline"
  /\ stack[1][2].i = 2
  /\ stack[1][2].args = <<Str(<<"s", "e", "e", "d">>)>>
  /\ stack[1][4].op = "invoke"
  /\ stack[1][4].ctor = "Characters"
  /\ stack[1][5] = PrepareFrame("storySeed")
  /\ invocations["StoryOutline"] = 0
  /\ invocations["Characters"] = 0

\* C31: in every plate, cost = originalCost unless wasCompressed, and then
\* cost = compressedCost; for forced-include, included and dropped plates alike.
C31_PlateCostIsServedForm ==
  (HasCooked /\ result[1].explain) =>
    \A i \in 1..Len(result[1].plates) :
      LET plate == result[1].plates[i]
      IN plate.cost = IF plate.wasCompressed THEN plate.compressedCost
                      ELSE plate.originalCost

\* the same for the plates that are not dropped
C31_ServedPlateCostIsServedForm ==
  (HasCooked /\ result[1].explain) =>
    \A i \in 1..Len(result[1].plates) :
      LET plate == result[1].plates[i]
      IN plate.decision # "dropped" =>
           plate.cost = IF plate.wasCompressed THEN plate.compressedCost
                        ELSE plate.originalCost

\* C32: an order item whose token is in the pantry and in the cookbook is a pantry
\* item throughout: its value is the pantry's, the ranker is told recipe name
\* "pantry" and no priority tag, no profile and no summary of the shadowed recipe
\* is applied, and its lineage is the single pantry leaf.
C32_ShadowedItemIsPantryItem ==
  HasCooked =>
    \A i \in 1..Len(result[1].audit.preparedItems) :
      LET item == result[1].audit.preparedItems[i]
      IN (PantryHas(item.token) /\ CookbookGet(item.token) # NoCtor) =>
           /\ \E v \in RootValues(item.token) : item.baselineRendered = Render(v)
           /\ item.recipeName = "pantry"
           /\ item.priorityTag = Undef
           /\ item.compressedRendered = Undef
           /\ result[1].explain =>
                item.trace = <<[token |-> item.token, providerName |-> "pantry",
                                deps |-> <<>>]>>

\* what does hold for such an item: the value and the lineage are the pantry's
C32_ShadowedItemValueAndLineage ==
  HasCooked =>
    \A i \in 1..Len(result[1].audit.preparedItems) :
      LET item == result[1].audit.preparedItems[i]
      IN (PantryHas(item.token) /\ CookbookGet(item.token) # NoCtor) =>
           /\ \E v \in RootValues(item.token) : item.baselineRendered = Render(v)
           /\ result[1].explain =>
                item.trace = <<[token |-> item.token, providerName |-> "pantry",
                                deps |-> <<>>]>>

\* a cook call with a budget and at least one item has returned its plates
CookedUnderBudget ==
  /\ HasCooked
  /\ result[1].explain
  /\ result[1].budget # NoBudget
  /\ result[1].audit.preparedItems # <<>>

\* C33: with a budget (costs are never negative), totalTokens is at most the
\* larger of the budget and the served cost of the first item; so at most the
\* budget when the first item's served cost is.
C33_TotalWithinBudgetOrFirst ==
  CookedUnderBudget =>
    LET first == result[1].audit.plan[0].usedCost
        budget == result[1].budget
    IN /\ \A i \in 1..Len(result[1].plates) : result[1].plates[i].cost >= 0
       /\ result[1].totalTokens <= (IF first > budget THEN first ELSE budget)
       /\ first <= budget => result[1].totalTokens <= budget
       /\ result[1].totalTokens = result[1].audit.plannedTotal

\* C33 witness: the budget is used up exactly by the first item and one more, and a
\* third item with a positive cost is dropped
C33_Witness ==
  /\ CookedUnderBudget
  /\ Len(result[1].plates) = 3
  /\ result[1].totalTokens = result[1].budget
  /\ result[1].audit.plan[0].usedCost < result[1].budget
  /\ \E i \in 2..3 : result[1].plates[i].decision = "dropped" /\ result[1].plates[i].cost > 0

\* C34: with a budget, when the first item's served cost alone exceeds the budget,
\* every other item is dropped, items that cost nothing included, and totalTokens
\* is the first item's served cost.
C34_FirstOverBudgetDropsTheRest ==
  (CookedUnderBudget /\ result[1].audit.plan[0].usedCost > result[1].budget) =>
    /\ result[1].plates[1].decision = "forced-include"
    /\ \A i \in 2..Len(result[1].plates) :
         /\ result[1].plates[i].decision = "dropped"
         /\ ~result[1].audit.plan[i - 1].include
    /\ result[1].totalTokens = result[1].audit.plan[0].usedCost
    /\ result[1].context = Line(result[1].audit.plan[0])

\* C34 witness: the first item exceeds the budget and an item that costs nothing,
\* at baseline, is dropped
C34_Witness ==
  /\ CookedUnderBudget
  /\ result[1].audit.plan[0].usedCost > result[1].budget
  /\ Len(result[1].plates) >= 2
  /\ result[1].plates[2].originalCost = 0
  /\ result[1].plates[2].decision = "dropped"

\* C35: a failure of a recipe's prepare or of one of its ingredients caches nothing
\* for the recipe, and a later resolve of it starts invokeRecipe again; what was
\* cached before the failure stays cached, also after the call has failed; and a
\* value is in the cache only after a prepare that returned.
C35_FailureCachesNothing ==
  [][ /\ \A ctor \in Ctors :
           /\ valueCache[ctor] # NotCached => valueCache'[ctor] = valueCache[ctor]
           /\ valueCache'[ctor] # NotCached => completions'[ctor] >= 1
      /\ (Running(1, "prepare", "await") /\ ret[1].kind = "throw") =>
           /\ valueCache' = valueCache
           /\ valueCache'[Top(1).ctor] = NotCached
      /\ (result'[1].kind = "throw" /\ stack[1] # <<>>) => valueCache' = valueCache
      /\ ( /\ Running(1, "prepare", "start")
           /\ ~PantryHas(Top(1).token)
           /\ CookbookGet(Top(1).token) # NoCtor
           /\ valueCache[CookbookGet(Top(1).token)] = NotCached ) =>
           /\ Len(stack'[1]) = Len(stack[1]) + 1
           /\ stack'[1][Len(stack'[1])] = InvokeFrame(CookbookGet(Top(1).token)) ]_vars

\* C35 witness: a second call, resolve("PickGone"), failed on its sub-path; Root,
\* resolved for it, is cached, PickGone is not and its prepare was never invoked
C35_Witness ==
  /\ Resolved("PickGone")
  /\ result[1].kind = "throw"
  /\ calls = 2
  /\ valueCache["Root"] # NotCached
  /\ invocations["Root"] = 1
  /\ valueCache["PickGone"] = NotCached
  /\ invocations["PickGone"] = 0

\* C36: an ingredient without a sub-path whose root token resolves to undefined (a
\* pantry value, or the output of a recipe) fails the recipe that depends on it as
\* an absent sub-path does: prepare is never invoked with an undefined ingredient.
C36_UndefinedIngredientFails ==
  /\ \A ctor \in Ctors :
       invocations[ctor] > 0 =>
         /\ Len(lastArgs[ctor]) = Len(IngredientSpecs(ctor))
         /\ \A i \in 1..Len(lastArgs[ctor]) : lastArgs[ctor][i] # Undef
  /\ \A tok \in {"HollowUser", "BlankUser", "PickGone"} :
       Resolved(tok) =>
         /\ result[1] = Throw("ContractViolation")
         /\ invocations[tok] = 0
         /\ valueCache[tok] = NotCached

\* C36 witness: Hollow returned undefined, which is cached, and resolve("HollowUser")
\* failed; resolve("BlankUser") has failed on the undefined pantry value before
C36_Witness ==
  /\ Resolved("HollowUser")
  /\ result[1] = Throw("ContractViolation")
  /\ valueCache["Hollow"] = Undef
  /\ invocations["Hollow"] = 1
  /\ invocations["HollowUser"] = 0
  /\ instanceCache = {"Hollow", "HollowUser", "BlankUser"}

\* the recipe that `prepare` runs for an order token: none for a pantry token
ProviderOf(token) == IF pantry[token] # NoEntry THEN NoCtor ELSE CookbookGet(token)

\* every item of the order has its prepared item, the recipe behind it has been
\* invoked and its value cached, and the summary recipe of a compressible item has
\* been attempted
AllMaterialized(order, items) ==
  /\ Len(items) = Len(order)
  /\ \A i \in 1..Len(order) :
       LET ctor == ProviderOf(order[i].token)
       IN /\ items[i].token = order[i].token
          /\ ctor # NoCtor =>
               /\ valueCache[ctor] # NotCached
               /\ invocations[ctor] >= 1
               /\ Compressible(ctor) /\ SummaryRecipe(ctor) # NoHint =>
                    SummaryRecipe(ctor) \in instanceCache

\* C37: cook materializes every order item, and attempts the summary recipe of every
\* compressible item, before the planner decides anything: no decision exists while
\* the loop runs, the recipes of dropped items are invoked and cached all the same,
\* and without a budget the summary is attempted though no plate is served compressed.
C37_MaterializedBeforePlanning ==
  /\ Cooking =>
       LET f == stack[1][1]
       IN IF f.pc \in {"cand", "plate"}
          THEN AllMaterialized(f.order, f.preparedItems)
          ELSE f.plan = <<>> /\ f.evaluated = <<>>
  /\ HasCooked =>
       /\ AllMaterialized(result[1].audit.order, result[1].audit.preparedItems)
       /\ result[1].budget = NoBudget =>
            \A i \in DOMAIN result[1].audit.plan : ~result[1].audit.plan[i].usedCompressed

\* C37 witness: a cook under budget has dropped an item whose recipe was invoked and
\* is cached
C37_Witness ==
  /\ HasCooked
  /\ result[1].explain
  /\ \E i \in 1..Len(result[1].plates) :
       LET plate == result[1].plates[i]
       IN /\ plate.decision = "dropped"
          /\ ProviderOf(plate.token) # NoCtor
          /\ valueCache[ProviderOf(plate.token)] # NotCached
          /\ invocations[ProviderOf(plate.token)] = 1

C37_WitnessNoBudget ==
  /\ HasCooked
  /\ result[1].budget = NoBudget
  /\ \E i \in 1..Len(result[1].audit.order) :
       /\ result[1].audit.order[i].token = "ConversationHistory"
       /\ result[1].audit.preparedItems[i].compressedRendered # Undef
  /\ invocations["ConversationHistorySummary"] = 1

\* C38: on an acyclic dependency graph the list trace returns is dependency-first:
\* every token named in the deps of an entry has its own entry earlier in the list,
\* and the entry of the root token is the last one.
C38_TraceIsDependencyFirst ==
  \A tok \in Tokens :
    (TraceSettled(tok) /\ result[1].kind = "value") =>
      LET e == result[1].v.e
      IN /\ e # <<>>
         /\ e[Len(e)].token = tok
         /\ \A j \in 1..Len(e) :
              \A d \in 1..Len(e[j].deps) :
                \E i \in 1..(j - 1) : e[i].token = e[j].deps[d].token

\* C38 witness: trace("StoryOutline"), whose second ingredient depends on its first:
\* the seed, then Characters, then the root
C38_Witness ==
  /\ TraceSettled("StoryOutline")
  /\ result[1].kind = "value"
  /\ Len(result[1].v.e) = 3
  /\ result[1].v.e[1].token = "storySeed"
  /\ result[1].v.e[2].token = "Characters"
  /\ result[1].v.e[2].deps # <<>>
  /\ Len(result[1].v.e[3].deps) = 2

\* C39: the planner records exactly one decision for every order item, with or
\* without a budget: the plan has a decision for each position and nothing else;
\* with explain there is one plate per order item, at the item's position, with the
\* detail, the baseline cost and the decision of that very occurrence, also when a
\* token occurs several times; and the context holds one line per included item.
C39_OneDecisionPerOrderItem ==
  HasCooked =>
    LET a == result[1].audit
        n == Len(a.order)
        includedItems == {i \in 1..n : a.plan[i - 1].include}
    IN /\ Len(a.preparedItems) = n
       /\ DOMAIN a.plan = 0..(n - 1)
       /\ \A i \in 1..n : a.preparedItems[i].index = i - 1
       /\ result[1].totalTokens = a.plannedTotal
       /\ (includedItems = {}) = (result[1].context = <<>>)
       /\ Len(result[1].context) =
            SumCosts([i \in 1..n |->
                        [baselineCost |-> IF i \in includedItems
                                          THEN Len(a.plan[i - 1].usedRendered.s) + 2
                                          ELSE 0]])
            - (IF includedItems = {} THEN 0 ELSE 1)
       /\ result[1].explain =>
            /\ Len(result[1].plates) = n
            /\ \A i \in 1..n :
                 LET plate == result[1].plates[i]
                 IN /\ plate.token = a.order[i].token
                    /\ plate.servedDetail = a.order[i].detail
                    /\ plate.originalCost = a.preparedItems[i].baselineCost
                    /\ plate.cost = a.plan[i - 1].usedCost
                    /\ (plate.decision = "dropped") = ~a.plan[i - 1].include

\* C39 witness: an order naming one token twice, cooked under budget with explain:
\* two plates for it, at their positions, decided differently
C39_Witness ==
  /\ HasCooked
  /\ result[1].explain
  /\ result[1].budget # NoBudget
  /\ \E i, j \in 1..Len(result[1].plates) :
       /\ i < j
       /\ result[1].plates[i].token = result[1].plates[j].token
       /\ result[1].plates[i].servedDetail # result[1].plates[j].servedDetail
       /\ result[1].plates[i].decision = "forced-include"
       /\ result[1].plates[j].decision = "dropped"
       /\ result[1].plates[j].cost > 0

====
